---------------------------- MODULE Spec2Model ----------------------------
(***************************************************************************)
(* Proposal lifecycle of the Dew kernel client: outcome classification,    *)
(* proposal-id and MPC-signature extraction (utils/proposals.ts) and the   *)
(* propose / vote / execute methods of DewClient (client.ts).              *)
(***************************************************************************)
EXTENDS Integers, Sequences, FiniteSets, TLC

VARIABLES
    pc,          \* position of the running call
    op,          \* the entry point that was called
    outcome,     \* the outcome returned by the transport (callKernel)
    classified,  \* wasProposalExecuted(outcome), once computed
    extracted,   \* extractProposalId / extractMPCSignatures result, once computed
    result,      \* what the call returned (or the error it threw)
    locals,      \* the local variables and options of the running call
    kernel,      \* the kernel contract: latest proposal id, pending ids, clock
    hist,        \* call history: sends, failures, finalize and broadcast calls
    signing,     \* the NearWasm adapter: signature list, transaction, signed bytes
    broadcasting, \* broadcastNearTransaction: the outcome received and the result
    waiting,     \* a Wait.for / Wait.poll loop: clock, start time, polls, result
    swapping,    \* a swapViaIntents call: position, quote, requests sent
    retrying,    \* a retry() call: options, attempts, sends, sleeps, result
    building,    \* a buildNearTransaction call: signer, access key, transaction
    locking      \* an ensureLock call and the kernel's lock

vars == <<pc, op, outcome, classified, extracted, result, locals, kernel, hist,
          signing, broadcasting, waiting, swapping, retrying, building, locking>>

\* the variables of the client and of the chain
clientVars == <<pc, op, outcome, classified, extracted, result, locals, kernel, hist>>

(***************************************************************************)
(* Bounds.                                                                 *)
(***************************************************************************)
MaxReceipts == 2
MaxLogs == 3
MaxId == 12
MaxFailures == 1
MaxCallLogs == 2
MaxCallReceipts == 1
MaxSignatures == 3
MaxBroadcastReceipts == 2
MaxRetryTimes == 2
MaxTimeout == 3
MaxNonce == 3

(***************************************************************************)
(* JSON values, as JSON.parse produces them.  Strings whose characters are *)
(* inspected (proposal ids) are sequences of characters; the other strings *)
(* are atoms.                                                              *)
(***************************************************************************)
Undefined == [t |-> "undefined"]
JNull == [t |-> "null"]
JBool(b) == [t |-> "boolean", b |-> b]
JNum(n) == [t |-> "number", n |-> n]
JStr(s) == [t |-> "string", s |-> s]
JChars(c) == [t |-> "string", c |-> c]
JArr(a) == [t |-> "array", a |-> a]
JObj(o) == [t |-> "object", o |-> o]

\* typeof v === "object" && v (arrays are objects, null is not truthy)
IsObject(v) == v.t \in {"object", "array"}
IsArray(v) == v.t = "array"
IsString(v) == v.t = "string"
IsNumber(v) == v.t = "number"
\* v.k for a key k: undefined on arrays and on objects without the key
Get(v, k) == IF v.t = "object" /\ k \in DOMAIN v.o THEN v.o[k] ELSE Undefined

\* JavaScript truthiness
Truthy(v) ==
    CASE v.t \in {"undefined", "null"} -> FALSE
      [] v.t = "boolean" -> v.b
      [] v.t = "number" -> v.n # 0
      [] v.t = "string" -> IF "s" \in DOMAIN v THEN v.s # "" ELSE v.c # <<>>
      [] OTHER -> TRUE

\* the keys and string atoms that occur in the text of a JSON document
RECURSIVE Atoms(_)
Atoms(v) ==
    CASE v.t = "object" -> DOMAIN v.o \cup UNION {Atoms(v.o[k]) : k \in DOMAIN v.o}
      [] v.t = "array" -> UNION {Atoms(v.a[i]) : i \in DOMAIN v.a}
      [] v.t = "string" /\ "s" \in DOMAIN v -> {v.s}
      [] OTHER -> {}

(***************************************************************************)
(* Texts: a log line body or a decoded SuccessValue.  A text is either the *)
(* serialisation of a JSON value, or a non-JSON text of which only the     *)
(* markers it contains matter, or the empty string.                        *)
(***************************************************************************)
JsonText(v) == [json |-> v]
RawText(m) == [raw |-> m]
EmptyText == [empty |-> TRUE]

\* JSON.parse: throws on the empty string and on non-JSON text
CanParse(text) == "json" \in DOMAIN text
Parse(text) == text.json

\* atoms that contain the substring big_r
BigRAtoms == {"big_r", "big_r_affine"}
\* String.prototype.includes for the markers the code searches, written as the
\* code writes them: Q stands for a double quote
Includes(text, marker) ==
    IF "raw" \in DOMAIN text THEN marker \in text.raw
    ELSE IF "json" \in DOMAIN text THEN
        CASE marker = "Qbig_rQ" -> "big_r" \in Atoms(text.json)
          [] marker = "big_r" -> Atoms(text.json) \cap BigRAtoms # {}
          [] marker = "QsignatureQ" -> "signature" \in Atoms(text.json)
          [] marker = "QEd25519Q" -> "Ed25519" \in Atoms(text.json)
          [] marker = "Qed25519Q" -> "ed25519" \in Atoms(text.json)
          [] OTHER -> FALSE
    ELSE FALSE

\* a log line: an optional EVENT_JSON: prefix followed by a text
Log(prefix, body) == [prefix |-> prefix, body |-> body]
LogIncludes(log, marker) == Includes(log.body, marker)

(***************************************************************************)
(* Decimal strings.                                                        *)
(***************************************************************************)
Digits == <<"0", "1", "2", "3", "4", "5", "6", "7", "8", "9">>
DigitVal(c) == (CHOOSE d \in 1..10 : Digits[d] = c) - 1
IsDigit(c) == \E d \in 1..10 : Digits[d] = c

\* /^\d+$/.test(s)
IsDigitString(v) ==
    /\ "c" \in DOMAIN v
    /\ Len(v.c) > 0
    /\ \A i \in 1..Len(v.c) : IsDigit(v.c[i])

\* parseInt(s, 10) on a digit-only string
RECURSIVE ParseIntFrom(_, _, _)
ParseIntFrom(c, i, acc) ==
    IF i > Len(c) THEN acc ELSE ParseIntFrom(c, i + 1, acc * 10 + DigitVal(c[i]))
ParseInt(c) == ParseIntFrom(c, 1, 0)

\* String(n) for a non-negative integer
RECURSIVE ToDigits(_)
ToDigits(n) ==
    IF n < 10 THEN <<Digits[n + 1]>> ELSE Append(ToDigits(n \div 10), Digits[(n % 10) + 1])

(***************************************************************************)
(* Outcomes.  An outcome with receipts is [receipts_outcome |-> <<r..>>],  *)
(* a receipt is [logs |-> <<log..>>, status |-> st], a status is           *)
(* [SuccessValue |-> text] (the text being the base64-decoded value),      *)
(* [Failure |-> e] or [SuccessReceiptId |-> id].  A result-only response   *)
(* is the JSON value the call returned.                                    *)
(***************************************************************************)
Receipt(logs, status) == [logs |-> logs, status |-> status]
ReceiptsOutcome(rs) == [receipts_outcome |-> rs]
Return(v) == [ret |-> v]
Throw(e) == [throw |-> e]
Returned(r) == "ret" \in DOMAIN r
Thrown(r) == "throw" \in DOMAIN r

hasReceiptsOutcome(o) == "receipts_outcome" \in DOMAIN o

NoEvent == [event |-> Undefined]
parseEventJson(log) ==
    IF ~log.prefix THEN NoEvent
    ELSE IF CanParse(log.body) /\ IsObject(Parse(log.body))
            /\ IsString(Get(Parse(log.body), "event"))
         THEN [event |-> Get(Parse(log.body), "event"), data |-> Get(Parse(log.body), "data")]
         ELSE NoEvent

\* lines 34-42: what one log line contributes to the classification
LogSignalsExecution(log) ==
    \/ parseEventJson(log).event = JStr("proposal_executed")
    \/ LogIncludes(log, "Qbig_rQ")
    \/ LogIncludes(log, "QsignatureQ")

\* lines 46-59: what the terminal status of one receipt contributes
StatusSignalsExecutionTypeofOnly(status) ==
    /\ "SuccessValue" \in DOMAIN status
    /\ status.SuccessValue # EmptyText
    /\ CanParse(status.SuccessValue)
    /\ Parse(status.SuccessValue).t \in {"object", "array", "null"}
StatusSignalsExecutionPlainObjects(status) ==
    /\ "SuccessValue" \in DOMAIN status
    /\ status.SuccessValue # EmptyText
    /\ CanParse(status.SuccessValue)
    /\ Parse(status.SuccessValue).t = "object"
StatusSignalsExecution(status) ==
    /\ "SuccessValue" \in DOMAIN status
    /\ status.SuccessValue # EmptyText
    /\ status.SuccessValue # JsonText(JNull)
    /\ status.SuccessValue # JsonText(JStr(""))
    /\ CanParse(status.SuccessValue)
    /\ Truthy(Parse(status.SuccessValue))
    /\ IsObject(Parse(status.SuccessValue))

wasProposalExecutedFirstReceiptOnly(o) ==
    /\ hasReceiptsOutcome(o)
    /\ \E i \in 1..Len(o.receipts_outcome) :
          /\ i = 1
          /\ \/ \E j \in 1..Len(o.receipts_outcome[i].logs) :
                   LogSignalsExecution(o.receipts_outcome[i].logs[j])
             \/ StatusSignalsExecution(o.receipts_outcome[i].status)
wasProposalExecuted(o) ==
    /\ hasReceiptsOutcome(o)
    /\ \E i \in 1..Len(o.receipts_outcome) :
          \/ \E j \in 1..Len(o.receipts_outcome[i].logs) :
                LogSignalsExecution(o.receipts_outcome[i].logs[j])
          \/ StatusSignalsExecution(o.receipts_outcome[i].status)

isProposalEvent(value) ==
    value \in {JStr("proposal_created"), JStr("proposal_executed"), JStr("proposal_cancelled")}

extractProposalIdFromEventNumbersOnly(event) ==
    IF ~isProposalEvent(event.event) THEN Undefined
    ELSE IF ~IsArray(event.data) \/ Len(event.data.a) = 0 THEN Undefined
    ELSE IF ~(Truthy(event.data.a[1]) /\ IsObject(event.data.a[1])) THEN Undefined
    ELSE IF IsNumber(Get(event.data.a[1], "proposal_id"))
         THEN Get(event.data.a[1], "proposal_id")
    ELSE Undefined
extractProposalIdFromEvent(event) ==
    IF ~isProposalEvent(event.event) THEN Undefined
    ELSE IF ~IsArray(event.data) \/ Len(event.data.a) = 0 THEN Undefined
    ELSE IF ~(Truthy(event.data.a[1]) /\ IsObject(event.data.a[1])) THEN Undefined
    ELSE IF IsNumber(Get(event.data.a[1], "proposal_id"))
         THEN Get(event.data.a[1], "proposal_id")
    ELSE IF IsString(Get(event.data.a[1], "proposal_id"))
            /\ IsDigitString(Get(event.data.a[1], "proposal_id"))
         THEN JNum(ParseInt(Get(event.data.a[1], "proposal_id").c))
    ELSE Undefined

\* the log lines of an outcome in the order the nested loops visit them
RECURSIVE AllLogs(_)
AllLogs(rs) == IF rs = <<>> THEN <<>> ELSE Head(rs).logs \o AllLogs(Tail(rs))

RECURSIVE FirstProposalId(_)
FirstProposalId(logs) ==
    IF logs = <<>> THEN Undefined
    ELSE IF parseEventJson(Head(logs)) # NoEvent
            /\ extractProposalIdFromEvent(parseEventJson(Head(logs))) # Undefined
         THEN extractProposalIdFromEvent(parseEventJson(Head(logs)))
         ELSE FirstProposalId(Tail(logs))

MissingReceipts == "Failed to extract proposal ID: outcome is missing receipts_outcome"
MissingProposalId == "Failed to extract proposal ID from kernel logs."

extractProposalId(o) ==
    IF ~hasReceiptsOutcome(o) THEN Throw(MissingReceipts)
    ELSE IF FirstProposalId(AllLogs(o.receipts_outcome)) # Undefined
         THEN Return(FirstProposalId(AllLogs(o.receipts_outcome)).n)
         ELSE Throw(MissingProposalId)

(***************************************************************************)
(* MPC signatures.                                                         *)
(***************************************************************************)
\* String.prototype.toLowerCase on the scheme names that occur
ToLowerCase(s) == IF s \in {"Ed25519", "ED25519", "ed25519"} THEN "ed25519" ELSE s

isEd25519Signature(value) ==
    /\ Truthy(value) /\ IsObject(value)
    /\ IsArray(Get(value, "signature"))
    /\ \A i \in 1..Len(Get(value, "signature").a) : IsNumber(Get(value, "signature").a[i])
    /\ IsString(Get(value, "scheme"))
    /\ "s" \in DOMAIN Get(value, "scheme")
    /\ ToLowerCase(Get(value, "scheme").s) = "ed25519"

isSecp256k1Signature(value) ==
    /\ Truthy(value) /\ IsObject(value)
    /\ Get(value, "big_r") # Undefined
    /\ Get(value, "s") # Undefined
    /\ Get(value, "recovery_id") # Undefined

\* the closure collectSignature, as the list of what it pushes for one value
collectSignatureSecpOnly(value) ==
    IF isSecp256k1Signature(value) THEN <<value>> ELSE <<>>
collectSignature(value) ==
    IF isEd25519Signature(value) \/ isSecp256k1Signature(value) THEN <<value>> ELSE <<>>

\* the last Ed25519 entry instead of the first
RECURSIVE pickEd25519SignatureLast(_)
pickEd25519SignatureLast(signatures) ==
    IF signatures = <<>> THEN JNull
    ELSE IF isEd25519Signature(signatures[Len(signatures)])
    THEN signatures[Len(signatures)]
    ELSE pickEd25519SignatureLast(SubSeq(signatures, 1, Len(signatures) - 1))

RECURSIVE pickEd25519Signature(_)
pickEd25519Signature(signatures) ==
    IF signatures = <<>> THEN JNull
    ELSE IF isEd25519Signature(Head(signatures)) THEN Head(signatures)
    ELSE pickEd25519Signature(Tail(signatures))

\* lines 204-220: the signatures one log line yields
LogLooksRelevant(log) ==
    \/ LogIncludes(log, "Qbig_rQ")
    \/ LogIncludes(log, "big_r")
    \/ LogIncludes(log, "QEd25519Q")
    \/ LogIncludes(log, "Qed25519Q")
    \/ LogIncludes(log, "QsignatureQ")
SignaturesOfLog(log) ==
    IF LogLooksRelevant(log) /\ ~log.prefix /\ CanParse(log.body)
    THEN collectSignature(Parse(log.body))
    ELSE <<>>

RECURSIVE SignaturesOfLogs(_)
SignaturesOfLogs(logs) ==
    IF logs = <<>> THEN <<>>
    ELSE SignaturesOfLog(Head(logs)) \o SignaturesOfLogs(Tail(logs))

RECURSIVE CollectEach(_)
CollectEach(items) ==
    IF items = <<>> THEN <<>>
    ELSE collectSignature(Head(items)) \o CollectEach(Tail(items))

\* lines 222-237: the signatures the return value of one receipt yields
SignaturesOfStatusSingleOnly(status) ==
    IF "SuccessValue" \in DOMAIN status /\ CanParse(status.SuccessValue)
    THEN collectSignature(Parse(status.SuccessValue))
    ELSE <<>>
SignaturesOfStatus(status) ==
    IF "SuccessValue" \in DOMAIN status /\ CanParse(status.SuccessValue)
    THEN IF IsArray(Parse(status.SuccessValue))
         THEN CollectEach(Parse(status.SuccessValue).a)
         ELSE collectSignature(Parse(status.SuccessValue))
    ELSE <<>>

RECURSIVE SignaturesOfReceipts(_)
SignaturesOfReceipts(rs) ==
    IF rs = <<>> THEN <<>>
    ELSE SignaturesOfLogs(Head(rs).logs) \o SignaturesOfStatus(Head(rs).status)
            \o SignaturesOfReceipts(Tail(rs))

extractMPCSignatures(o) == SignaturesOfReceipts(o.receipts_outcome)

extractMPCSignaturesFromResultValue(value) ==
    IF IsArray(value) THEN CollectEach(value.a)
    ELSE IF Truthy(value) THEN collectSignature(value)
    ELSE <<>>

(***************************************************************************)
(* Bounded inputs: the log lines and statuses outcomes are built from.     *)
(***************************************************************************)
EventLine(name, data) ==
    Log(TRUE, JsonText(JObj([event |-> JStr(name), data |-> data])))
ProposalData(id) == JArr(<<JObj([proposal_id |-> id])>>)

Ed25519Value == JObj([scheme |-> JStr("Ed25519"), signature |-> JArr(<<JNum(7), JNum(9)>>)])
Secp256k1Value == JObj([big_r |-> JStr("02ab"), s |-> JStr("1f"), recovery_id |-> JNum(0)])
NotASignatureValue == JObj([signature |-> JStr("pending")])

ExecutedLine == EventLine("proposal_executed", ProposalData(JNum(1)))
CreatedLine == EventLine("proposal_created", ProposalData(JNum(1)))
PlainLine == Log(FALSE, RawText({}))
MalformedEventLine == Log(TRUE, RawText({}))
SignatureTextLine == Log(FALSE, RawText({"QsignatureQ"}))
Ed25519Line == Log(FALSE, JsonText(Ed25519Value))
Secp256k1Line == Log(FALSE, JsonText(Secp256k1Value))
NotASignatureLine == Log(FALSE, JsonText(NotASignatureValue))
BigRTextLine == Log(FALSE, RawText({"Qbig_rQ", "big_r"}))

FailureStatus == [Failure |-> "ActionError"]
SuccessStatus(text) == [SuccessValue |-> text]

ClassifyLines == {ExecutedLine, CreatedLine, MalformedEventLine, SignatureTextLine}
ClassifyStatuses ==
    {FailureStatus, SuccessStatus(EmptyText), SuccessStatus(JsonText(JNull)),
     SuccessStatus(JsonText(JStr(""))), SuccessStatus(JsonText(JNum(7))),
     SuccessStatus(JsonText(JObj([ok |-> JBool(TRUE)]))),
     SuccessStatus(JsonText(JArr(<<>>)))}

CreatedNumberLine(n) == EventLine("proposal_created", ProposalData(JNum(n)))
CreatedStringLine(n) == EventLine("proposal_created", ProposalData(JChars(ToDigits(n))))
IdLines(n) ==
    {CreatedNumberLine(n), CreatedStringLine(n),
     EventLine("proposal_executed", ProposalData(JNum(n + 1))),
     PlainLine, MalformedEventLine}
IdStatuses == {FailureStatus, SuccessStatus(EmptyText)}

SignatureLines ==
    {Ed25519Line, Secp256k1Line, NotASignatureLine, BigRTextLine}
SignatureArray == JArr(<<Secp256k1Value, NotASignatureValue, Ed25519Value>>)
SignatureStatuses ==
    {FailureStatus, SuccessStatus(EmptyText),
     SuccessStatus(JsonText(Ed25519Value)),
     SuccessStatus(JsonText(SignatureArray))}

\* the number of log lines in a receipt sequence
RECURSIVE LogCount(_)
LogCount(rs) == IF rs = <<>> THEN 0 ELSE Len(Head(rs).logs) + LogCount(Tail(rs))

(***************************************************************************)
(* The chain executes the transaction receipt by receipt: a receipt ends   *)
(* with a terminal status and emits log lines.                             *)
(***************************************************************************)
ReceiptExecutes(statuses, max) ==
    /\ pc = "chain"
    /\ hasReceiptsOutcome(outcome)
    /\ Len(outcome.receipts_outcome) < max
    /\ \E st \in statuses :
          outcome' = ReceiptsOutcome(Append(outcome.receipts_outcome, Receipt(<<>>, st)))
    /\ UNCHANGED <<pc, op, classified, extracted, result, locals, kernel, hist,
                 signing, broadcasting, waiting, swapping, retrying, building, locking>>

ReceiptLogs(lines, max) ==
    /\ pc = "chain"
    /\ hasReceiptsOutcome(outcome)
    /\ Len(outcome.receipts_outcome) > 0
    /\ LogCount(outcome.receipts_outcome) < max
    /\ \E line \in lines :
          LET n == Len(outcome.receipts_outcome)
              last == outcome.receipts_outcome[n]
          IN outcome' = ReceiptsOutcome(
                [outcome.receipts_outcome EXCEPT ![n] =
                    Receipt(Append(last.logs, line), last.status)])
    /\ UNCHANGED <<pc, op, classified, extracted, result, locals, kernel, hist,
                 signing, broadcasting, waiting, swapping, retrying, building, locking>>

\* a transaction outcome has at least one receipt
OutcomeIsFinal == hasReceiptsOutcome(outcome) /\ Len(outcome.receipts_outcome) > 0

(***************************************************************************)
(* The state before any call.                                              *)
(***************************************************************************)
NoResult == [none |-> TRUE]
NoSnapshot == [none |-> TRUE]
Idle ==
    /\ op = "none"
    /\ classified = FALSE
    /\ extracted = NoResult
    /\ result = NoResult
    /\ locals = [times |-> 0, interval |-> 0, retry |-> <<>>,
                 proposalId |-> 0, proposal |-> NoSnapshot,
                 propose |-> NoResult, signedTx |-> NoResult, options |-> NoResult]
    /\ hist = [sends |-> 0, failures |-> 0, slept |-> 0, submitted |-> 0,
               returned |-> -1, finalized |-> NoResult, broadcast |-> NoResult,
               lost |-> 0, own |-> 0, others |-> 0]

\* nothing else is running
OthersIdle ==
    /\ signing = NoResult
    /\ broadcasting = NoResult
    /\ waiting = NoResult
    /\ swapping = NoResult
    /\ retrying = NoResult
    /\ building = NoResult /\ locking = NoResult

(***************************************************************************)
(* The pure functions applied to the outcomes the chain can produce.       *)
(***************************************************************************)
Classify ==
    /\ pc = "chain" /\ OutcomeIsFinal
    /\ classified' = wasProposalExecuted(outcome)
    /\ pc' = "classified"
    /\ UNCHANGED <<op, outcome, extracted, result, locals, kernel, hist,
                 signing, broadcasting, waiting, swapping, retrying, building, locking>>

ExtractId ==
    /\ pc = "chain" /\ OutcomeIsFinal
    /\ extracted' = extractProposalId(outcome)
    /\ pc' = "extractedId"
    /\ UNCHANGED <<op, outcome, classified, result, locals, kernel, hist,
                 signing, broadcasting, waiting, swapping, retrying, building, locking>>

ExtractSignatures ==
    /\ pc = "chain" /\ OutcomeIsFinal
    /\ extracted' = Return(extractMPCSignatures(outcome))
    /\ pc' = "extractedSignatures"
    /\ UNCHANGED <<op, outcome, classified, result, locals, kernel, hist,
                 signing, broadcasting, waiting, swapping, retrying, building, locking>>

InitPure ==
    /\ pc = "chain"
    /\ outcome = ReceiptsOutcome(<<>>)
    /\ kernel = [latest |-> 0, pending |-> {}, clock |-> 0]
    /\ Idle /\ OthersIdle

NextClassify ==
    \/ ReceiptExecutes(ClassifyStatuses, MaxReceipts)
    \/ ReceiptLogs(ClassifyLines, MaxLogs)
    \/ Classify
SpecClassify == InitPure /\ [][NextClassify]_vars

\* the proposal ids tried: zero, one digit, the first two-digit id, the largest
ProposalIds == {0, 1, 9, 10, MaxId}

InitProposalId ==
    /\ pc = "chain"
    /\ outcome = ReceiptsOutcome(<<>>)
    /\ \E n \in ProposalIds : kernel = [latest |-> n, pending |-> {}, clock |-> 0]
    /\ Idle /\ OthersIdle
NextProposalId ==
    \/ ReceiptExecutes(IdStatuses, MaxReceipts)
    \/ ReceiptLogs(IdLines(kernel.latest), MaxLogs)
    \/ ExtractId
SpecProposalId == InitProposalId /\ [][NextProposalId]_vars

NextSignatures ==
    \/ ReceiptExecutes(SignatureStatuses, MaxReceipts)
    \/ ReceiptLogs(SignatureLines, MaxLogs)
    \/ ExtractSignatures
SpecSignatures == InitPure /\ [][NextSignatures]_vars

(***************************************************************************)
(* Properties of the classifier.                                           *)
(***************************************************************************)
\* a log line that is an event envelope with the completion-event name
IsCompletionEnvelope(log) ==
    /\ log.prefix
    /\ "json" \in DOMAIN log.body
    /\ log.body.json.t = "object"
    /\ "event" \in DOMAIN log.body.json.o
    /\ log.body.json.o.event = JStr("proposal_executed")

HasCompletionEventLog(o) ==
    \E i \in 1..Len(o.receipts_outcome) :
        \E j \in 1..Len(o.receipts_outcome[i].logs) :
            IsCompletionEnvelope(o.receipts_outcome[i].logs[j])

HasSignatureMarkerLog(o) ==
    \E i \in 1..Len(o.receipts_outcome) :
        \E j \in 1..Len(o.receipts_outcome[i].logs) :
            \/ LogIncludes(o.receipts_outcome[i].logs[j], "Qbig_rQ")
            \/ LogIncludes(o.receipts_outcome[i].logs[j], "QsignatureQ")

\* the success value of a status is empty, null or absent
EmptySuccessValue(status) ==
    \/ "SuccessValue" \notin DOMAIN status
    \/ status.SuccessValue \in {EmptyText, JsonText(JNull), JsonText(JStr(""))}

AllSuccessValuesEmpty(o) ==
    \A i \in 1..Len(o.receipts_outcome) : EmptySuccessValue(o.receipts_outcome[i].status)

\* C4: an outcome in which some receipt log is an event envelope carrying the
\* completion-event name proposal_executed is classified executed, whatever the
\* other receipts, log lines and statuses are.
C4_CompletionEventClassifiesExecuted ==
    (pc = "classified" /\ HasCompletionEventLog(outcome)) => classified = TRUE

\* the completion event sits in the second receipt, after a failed first receipt
\* that logged something else
C4_Witness ==
    /\ pc = "classified" /\ classified = TRUE
    /\ Len(outcome.receipts_outcome) = 2
    /\ outcome.receipts_outcome[1] = Receipt(<<MalformedEventLine>>, FailureStatus)
    /\ outcome.receipts_outcome[2].logs = <<CreatedLine, ExecutedLine>>
    /\ EmptySuccessValue(outcome.receipts_outcome[2].status)

\* C5 as stated: an outcome in which every receipt's success value is empty,
\* null or absent is classified not executed.
C5_Original ==
    (pc = "classified" /\ AllSuccessValuesEmpty(outcome)) => classified = FALSE

\* C5 amended: an outcome in which every receipt's success value is empty, null
\* or absent, and in which no log line is a proposal_executed envelope or
\* contains a "big_r" or "signature" marker, is classified not executed.
C5_EmptyValuesAndNoLogSignal ==
    (/\ pc = "classified"
     /\ AllSuccessValuesEmpty(outcome)
     /\ ~HasCompletionEventLog(outcome)
     /\ ~HasSignatureMarkerLog(outcome)) => classified = FALSE

\* two receipts, success values "null" and absent, logs without a signal
C5_Witness ==
    /\ pc = "classified" /\ classified = FALSE
    /\ Len(outcome.receipts_outcome) = 2
    /\ outcome.receipts_outcome[1] = Receipt(<<CreatedLine>>, SuccessStatus(JsonText(JNull)))
    /\ outcome.receipts_outcome[2] = Receipt(<<MalformedEventLine>>, FailureStatus)

\* a non-empty, non-null success value that JSON.parse accepts
DecodableSuccessValue(status) ==
    /\ "SuccessValue" \in DOMAIN status
    /\ "json" \in DOMAIN status.SuccessValue
    /\ status.SuccessValue.json # JNull

\* C6 as stated: an outcome in which some receipt's success value is non-empty,
\* not null and decodable as JSON is classified executed.
C6_Original ==
    (/\ pc = "classified"
     /\ \E i \in 1..Len(outcome.receipts_outcome) :
           DecodableSuccessValue(outcome.receipts_outcome[i].status)) => classified = TRUE

\* C6 amended: an outcome in which some receipt's success value decodes to a
\* JSON object or array is classified executed.
C6_StructuredValueClassifiesExecuted ==
    (/\ pc = "classified"
     /\ \E i \in 1..Len(outcome.receipts_outcome) :
           /\ DecodableSuccessValue(outcome.receipts_outcome[i].status)
           /\ outcome.receipts_outcome[i].status.SuccessValue.json.t \in {"object", "array"})
        => classified = TRUE

\* the only signal is an empty array returned by the second receipt
C6_Witness ==
    /\ pc = "classified" /\ classified = TRUE
    /\ ~HasCompletionEventLog(outcome) /\ ~HasSignatureMarkerLog(outcome)
    /\ Len(outcome.receipts_outcome) = 2
    /\ outcome.receipts_outcome[1].status = SuccessStatus(JsonText(JNum(7)))
    /\ outcome.receipts_outcome[2].status = SuccessStatus(JsonText(JArr(<<>>)))

(***************************************************************************)
(* Properties of the proposal-id extractor.                                *)
(***************************************************************************)
\* the positions <<receipt, line>> of the log lines of an outcome
LogPositions(o) ==
    {<<i, j>> \in (1..Len(o.receipts_outcome)) \X (1..MaxLogs) :
        j <= Len(o.receipts_outcome[i].logs)}
LogAt(o, p) == o.receipts_outcome[p[1]].logs[p[2]]

\* the only structured events of o are proposal_created events whose
\* data[0].proposal_id is n, as a JSON number or as a digit-only string
OnlyEventIsCreated(o, n) ==
    /\ \E p \in LogPositions(o) : LogAt(o, p) \in {CreatedNumberLine(n), CreatedStringLine(n)}
    /\ \A p \in LogPositions(o) :
          LogAt(o, p) \in {CreatedNumberLine(n), CreatedStringLine(n), PlainLine, MalformedEventLine}

\* C7: when the only structured event of the outcome is proposal_created with
\* data[0].proposal_id = N, as a JSON number or as a digit-only string,
\* extractProposalId returns exactly N.
C7_ExtractProposalIdReturnsN ==
    (pc = "extractedId" /\ OnlyEventIsCreated(outcome, kernel.latest))
        => extracted = Return(kernel.latest)

\* a two-digit id encoded as a string, behind other lines
C7_Witness ==
    /\ pc = "extractedId"
    /\ kernel.latest >= 10
    /\ OnlyEventIsCreated(outcome, kernel.latest)
    /\ \A p \in LogPositions(outcome) : LogAt(outcome, p) # CreatedNumberLine(kernel.latest)
    /\ Len(outcome.receipts_outcome) = 2
    /\ outcome.receipts_outcome[1].logs = <<MalformedEventLine>>
    /\ outcome.receipts_outcome[2].logs = <<PlainLine, CreatedStringLine(kernel.latest)>>
    /\ extracted = Return(kernel.latest)

(***************************************************************************)
(* Properties of the signature extractor.                                  *)
(***************************************************************************)
CountOf(sigs, v) == Cardinality({i \in 1..Len(sigs) : sigs[i] = v})
LineCount(o, line) == Cardinality({p \in LogPositions(o) : LogAt(o, p) = line})
StatusCount(o, st) ==
    Cardinality({i \in 1..Len(o.receipts_outcome) : o.receipts_outcome[i].status = st})
SingleStatus == SuccessStatus(JsonText(Ed25519Value))
ArrayStatus == SuccessStatus(JsonText(SignatureArray))

\* C9: for an outcome whose logs contain an Ed25519-shaped line and a
\* Secp256k1-shaped line, interleaved in any order with other JSON and non-JSON
\* lines, extractMPCSignatures returns both, each recognised as its own variant,
\* once per occurrence, and returns nothing derived from the other lines.
C9_BothVariantsExtractedFromLogs ==
    (/\ pc = "extractedSignatures"
     /\ LineCount(outcome, Ed25519Line) >= 1
     /\ LineCount(outcome, Secp256k1Line) >= 1)
    => LET sigs == extracted.ret IN
       /\ \A i \in 1..Len(sigs) :
             \/ sigs[i] = Ed25519Value
                  /\ isEd25519Signature(sigs[i]) /\ ~isSecp256k1Signature(sigs[i])
             \/ sigs[i] = Secp256k1Value
                  /\ isSecp256k1Signature(sigs[i]) /\ ~isEd25519Signature(sigs[i])
       /\ CountOf(sigs, Ed25519Value) =
             LineCount(outcome, Ed25519Line) + StatusCount(outcome, SingleStatus)
                + StatusCount(outcome, ArrayStatus)
       /\ CountOf(sigs, Secp256k1Value) =
             LineCount(outcome, Secp256k1Line) + StatusCount(outcome, ArrayStatus)

\* Secp256k1 line, a non-signature JSON line, then the Ed25519 line in a second receipt
C9_Witness ==
    /\ pc = "extractedSignatures"
    /\ Len(outcome.receipts_outcome) = 2
    /\ outcome.receipts_outcome[1] = Receipt(<<Secp256k1Line, NotASignatureLine>>, FailureStatus)
    /\ outcome.receipts_outcome[2] = Receipt(<<Ed25519Line>>, SuccessStatus(EmptyText))
    /\ extracted.ret = <<Secp256k1Value, Ed25519Value>>

Ops ==
    {"proposeChainSigTransaction", "proposeNearActions",
     "proposeExecutionKernelCoreFunction", "voteOnProposal", "execute"}
IsPropose(o) == o # "voteOnProposal"

\* retry.ts: the default number of retries
RetryTimes == 5
\* the calls whose submission goes through retry(): execute proposes through
\* proposeChainSigTransaction
RetriesSubmission(o) == o \in {"proposeChainSigTransaction", "execute"}

\* the retry settings a caller may put into the options of its call: none, or
\* a request for no retry and no delay
CallerRetry(o) ==
    IF o = "proposeChainSigTransaction"
    THEN {<<>>, [times |-> 0, interval |-> 0]}
    ELSE {<<>>}

\* the options the submission hands to retry(): none, whatever the caller passed
submissionRetryOptionsFromCaller(options) == options
submissionRetryOptions(options) == <<>>

\* retry.ts: the default delay between two attempts, in milliseconds
RetryInterval == 1000

(***************************************************************************)
(* retry (utils/retry.ts): call fn, and on an error sleep and call again   *)
(* while retries are left.                                                 *)
(***************************************************************************)
\* the options retry() is called with: { times?, interval? } or nothing
RetryOptions ==
    {<<>>}
      \cup {[times |-> t] : t \in 0..MaxRetryTimes}
      \cup {[interval |-> i] : i \in {0, 250}}
      \cup {[times |-> t, interval |-> i] : t \in 0..MaxRetryTimes, i \in {0, 250}}

\* the destructuring defaults { times = 5, interval = 1000 } = {}
retryTimes(options) ==
    IF "times" \in DOMAIN options THEN options.times ELSE RetryTimes
retryInterval(options) ==
    IF "interval" \in DOMAIN options THEN options.interval ELSE RetryInterval

\* after an error: retries are left
retryHasLeftOrNone(times) == times >= 0
retryHasLeftNever(times) == FALSE
retryHasLeft(times) == times > 0

\* the errors fn can throw: a lost connection, or a rejection by the kernel
FnErrors == {"RpcError", "KernelRejected"}
Transient(error) == error = "RpcError"

\* catch (error) { if (times > 0) ...: any error is retried while retries are left
retriesAfterTransientOnly(error, times) == Transient(error) /\ retryHasLeft(times)
retriesAfter(error, times) == retryHasLeft(times)

\* the options of the recursive call
retryAgain(times, interval) == [times |-> times - 1, interval |-> interval]

\* retry(fn, options) is called; fn is the submission of one transaction
RetryIdle(options) ==
    [pc |-> "fn", options |-> options,
     times |-> retryTimes(options), interval |-> retryInterval(options),
     attempts |-> 1, sent |-> FALSE, sends |-> 0, failures |-> 0,
     clock |-> 0, started |-> <<0>>, errors |-> <<>>, result |-> NoResult]

InitRetry ==
    /\ pc = "idle"
    /\ outcome = ReceiptsOutcome(<<>>)
    /\ kernel = [latest |-> 1, pending |-> {1}, clock |-> 0]
    /\ Idle
    /\ signing = NoResult /\ broadcasting = NoResult
    /\ waiting = NoResult /\ swapping = NoResult
    /\ building = NoResult /\ locking = NoResult
    /\ \E options \in RetryOptions : retrying = RetryIdle(options)

\* fn sends its transaction
FnSends ==
    /\ retrying.pc = "fn"
    /\ ~retrying.sent
    /\ retrying' = [retrying EXCEPT !.sent = TRUE, !.sends = @ + 1]
    /\ UNCHANGED <<clientVars, signing, broadcasting, waiting, swapping, building, locking>>

\* fn returns the outcome of the transaction it sent: retry returns it
FnReturns ==
    /\ retrying.pc = "fn"
    /\ retrying.sent
    /\ retrying' = [retrying EXCEPT
          !.pc = "done",
          !.result = Return([attempt |-> retrying.attempts, send |-> retrying.sends])]
    /\ UNCHANGED <<clientVars, signing, broadcasting, waiting, swapping, building, locking>>

\* fn throws, before or after its transaction was sent
FnThrows ==
    /\ retrying.pc = "fn"
    /\ \E error \in FnErrors :
          retrying' =
              IF retriesAfter(error, retrying.times)
              THEN [retrying EXCEPT !.pc = "sleep", !.failures = @ + 1,
                                    !.errors = Append(@, error)]
              ELSE [retrying EXCEPT !.pc = "done", !.failures = @ + 1,
                                    !.errors = Append(@, error),
                                    !.result = Throw(error)]
    /\ UNCHANGED <<clientVars, signing, broadcasting, waiting, swapping, building, locking>>

\* Wait.sleep({ ms: interval }) ends and retry calls itself
RetrySleeps ==
    /\ retrying.pc = "sleep"
    /\ LET again == retryAgain(retrying.times, retrying.interval)
           now == retrying.clock + retrying.interval IN
       retrying' = [retrying EXCEPT
          !.pc = "fn", !.times = again.times, !.interval = again.interval,
          !.attempts = @ + 1, !.sent = FALSE, !.clock = now,
          !.started = Append(@, now)]
    /\ UNCHANGED <<clientVars, signing, broadcasting, waiting, swapping, building, locking>>

NextRetry ==
    \/ FnSends
    \/ FnReturns
    \/ FnThrows
    \/ RetrySleeps
SpecRetry == InitRetry /\ [][NextRetry]_vars

(***************************************************************************)
(* Wait.for, Wait.poll and waitUntil (utils/wait.ts) and the calls of the  *)
(* intents helpers that wait for a balance.                                *)
(***************************************************************************)
\* the calls that poll
WaitCalls ==
    {"Wait.for", "Wait.poll", "waitUntil", "Wait.forBalance",
     "withdrawFromIntents", "swapViaIntents"}
IntentsWaits == {"withdrawFromIntents", "swapViaIntents"}

\* the interval and timeout options a caller passes: any subset of the two
WaitOptions(intervals, timeouts) ==
    {<<>>}
      \cup {[interval |-> i] : i \in intervals}
      \cup {[timeout |-> t] : t \in timeouts}
      \cup {[interval |-> i, timeout |-> t] : i \in intervals, t \in timeouts}
CallerWaitOptions(call) ==
    IF call \in IntentsWaits
    THEN WaitOptions({60000}, {0, MaxTimeout})
    ELSE WaitOptions({0, 2}, {0, MaxTimeout})

\* the default interval of each call, in milliseconds
DefaultInterval(call) ==
    IF call \in {"Wait.for", "Wait.poll", "waitUntil"} THEN 1000 ELSE 5000

\* the interval and the timeout the loop runs with: the intents helpers put
\* their own timeout where the caller gives none (timeoutMs ?? 300000)
waitArgs(call, options) ==
    LET interval == IF "interval" \in DOMAIN options THEN options.interval
                    ELSE DefaultInterval(call)
        message == CASE call = "Wait.forBalance" -> "Balance did not reach minBalance within timeout"
                     [] call = "withdrawFromIntents" -> "Withdraw did not arrive before timeout"
                     [] call = "swapViaIntents" -> "Intents swap did not settle before timeout"
                     [] call = "Wait.poll" -> "Wait.poll timed out"
                     [] OTHER -> "Wait.for timed out"
    IN  IF "timeout" \in DOMAIN options
        THEN [interval |-> interval, timeout |-> options.timeout, message |-> message]
        ELSE IF call = "withdrawFromIntents"
        THEN [interval |-> interval, timeout |-> 300000, message |-> message]
        ELSE IF call = "swapViaIntents"
        THEN [interval |-> interval, timeout |-> 180000, message |-> message]
        ELSE [interval |-> interval, message |-> message]

\* the test `timeout && ...`: a timeout was given and is not zero
hasTimeout(args) == "timeout" \in DOMAIN args /\ args.timeout # 0

\* timeout && Date.now() - startTime >= timeout
timedOutNever(args, elapsed) == FALSE
timedOut(args, elapsed) == hasTimeout(args) /\ elapsed >= args.timeout

\* Date.now() - startTime after dt more milliseconds; the loop only compares it
\* with the timeout, so it is followed up to the timeout and no further
Elapse(args, elapsed, dt) ==
    LET limit == IF hasTimeout(args) THEN args.timeout ELSE 0 IN
    IF elapsed + dt >= limit THEN limit ELSE elapsed + dt

\* setTimeout waits at least one millisecond
SleepTime(ms) == IF ms < 1 THEN 1 ELSE ms

InitWait ==
    /\ pc = "idle"
    /\ outcome = ReceiptsOutcome(<<>>)
    /\ kernel = [latest |-> 1, pending |-> {1}, clock |-> 0]
    /\ Idle
    /\ signing = NoResult /\ broadcasting = NoResult
    /\ swapping = NoResult /\ retrying = NoResult
    /\ building = NoResult /\ locking = NoResult
    /\ \E call \in WaitCalls : \E options \in CallerWaitOptions(call) :
          waiting = [pc |-> "condition", call |-> call, options |-> options,
                     args |-> waitArgs(call, options), elapsed |-> 0,
                     polls |-> "none", last |-> "none", result |-> NoResult]

\* one more poll, counted up to two
Polled(polls) == IF polls = "none" THEN "one" ELSE "more"

\* the condition (or fetch and until) answers after some time: the loop returns
\* on a truthy answer, throws when timed out, and sleeps otherwise
ConditionReturns ==
    /\ waiting.pc = "condition"
    /\ \E truthy \in BOOLEAN : \E dt \in {0, 1} :
          LET elapsed == Elapse(waiting.args, waiting.elapsed, dt)
              polled == [waiting EXCEPT !.elapsed = elapsed,
                                        !.polls = Polled(@),
                                        !.last = IF truthy THEN "truthy" ELSE "falsy"]
          IN  waiting' =
                IF truthy
                THEN [polled EXCEPT !.pc = "done", !.result = Return("truthy")]
                ELSE IF timedOut(waiting.args, elapsed)
                THEN [polled EXCEPT !.pc = "done",
                                    !.result = Throw(waiting.args.message)]
                ELSE [polled EXCEPT !.pc = "sleep"]
    /\ UNCHANGED <<clientVars, signing, broadcasting, swapping, retrying, building, locking>>

\* the condition throws: the error leaves the loop
ConditionThrows ==
    /\ waiting.pc = "condition"
    /\ waiting' = [waiting EXCEPT !.pc = "done", !.polls = Polled(@),
                                  !.last = "threw",
                                  !.result = Throw("condition failed")]
    /\ UNCHANGED <<clientVars, signing, broadcasting, swapping, retrying, building, locking>>

\* Wait.sleep({ ms: interval }) ends
SleepEnds ==
    /\ waiting.pc = "sleep"
    /\ waiting' = [waiting EXCEPT
          !.pc = "condition",
          !.elapsed = Elapse(waiting.args, @, SleepTime(waiting.args.interval))]
    /\ UNCHANGED <<clientVars, signing, broadcasting, swapping, retrying, building, locking>>

NextWait ==
    \/ ConditionReturns
    \/ ConditionThrows
    \/ SleepEnds
\* the event loop resumes a loop whose condition has answered or whose timer
\* has fired
SpecWait == InitWait /\ [][NextWait]_vars /\ WF_vars(NextWait)

(***************************************************************************)
(* swapViaIntents (utils/intents.ts): quote, sign, publish, optional wait. *)
(***************************************************************************)
\* the quotes of the solver
SwapQuote(hash, out) == [t |-> "quote", quote_hash |-> hash, amount_out |-> out]
SwapQuotes == {SwapQuote("h1", 250), SwapQuote("h2", 11)}

\* the balance of the swapped-to token before the swap
StartBalance == 1000
\* what another transfer of the same account takes from that balance
Spent == 100

\* params.waitForBalance: unset, or its options with the caller's initial
\* balance or without one
SwapWaits ==
    {[set |-> FALSE, initialBalance |-> FALSE, options |-> <<>>]}
      \cup {[set |-> TRUE, initialBalance |-> given, options |-> options] :
              given \in BOOLEAN,
              options \in {[interval |-> 60000],
                           [interval |-> 60000, timeout |-> MaxTimeout]}}

\* params.quote, params.nonce (of the right length or not) and
\* params.waitForBalance as the caller passes them
SwapParams ==
    [quote : SwapQuotes \cup {Undefined, JNull},
     nonceOk : BOOLEAN,
     waitForBalance : SwapWaits]

\* the answers of the solver to a quote request
QuoteResponses ==
    {[ok |-> FALSE, status |-> 500, body |-> Undefined]}
      \cup {[ok |-> TRUE, status |-> 200, body |-> b] :
              b \in {[error |-> "no liquidity"], [error |-> ""],
                     [result |-> <<>>],
                     [result |-> <<SwapQuote("h1", 250)>>],
                     [result |-> <<SwapQuote("h2", 11), SwapQuote("h1", 250)>>]}}

\* getIntentsSwapQuote, from the response of its request on
getIntentsSwapQuote(response) ==
    IF ~response.ok THEN Throw("Quote error: HTTP")
    ELSE IF "error" \in DOMAIN response.body
    THEN IF response.body.error # "" THEN Throw("Quote error: message")
         ELSE Throw("Quote error")
    ELSE IF Len(response.body.result) = 0 THEN Throw("Unable to get any quote")
    ELSE Return(response.body.result[1])

\* params.quote ?? ...: the caller's quote is used unless it is null or undefined
quoteSuppliedNever(quote) == FALSE
quoteSupplied(quote) == quote \notin {Undefined, JNull}

\* the requests of one kind sent to the solver so far
RECURSIVE RequestsOf(_, _)
RequestsOf(method, requests) ==
    IF requests = <<>> THEN 0
    ELSE (IF Head(requests) = method THEN 1 ELSE 0) + RequestsOf(method, Tail(requests))

\* the answers of the solver to a publish request
PublishResponses ==
    {[ok |-> FALSE, body |-> Undefined],
     [ok |-> TRUE, body |-> [error |-> "rejected"]],
     [ok |-> TRUE, body |-> [result |-> [intent_hash |-> "intent"]]]}

\* publishIntentsSwap, from the response of its request on
publishIntentsSwapIgnoringEnvelope(response) ==
    IF ~response.ok THEN Throw("Intent publishing error: HTTP")
    ELSE IF "error" \in DOMAIN response.body THEN Return("")
    ELSE Return(response.body.result.intent_hash)
publishIntentsSwap(response) ==
    IF ~response.ok THEN Throw("Intent publishing error: HTTP")
    ELSE IF "error" \in DOMAIN response.body THEN Throw("Intent publishing failed")
    ELSE Return(response.body.result.intent_hash)

\* the body of the publish request
publishRequestAllHashes(quote, payload, signature) ==
    [quote_hashes |-> <<"h1", "h2">>, payload |-> payload, signature |-> signature]
publishRequest(quote, payload, signature) ==
    [quote_hashes |-> <<quote.quote_hash>>, payload |-> payload, signature |-> signature]

\* buildIntentsNep413Payload: the message holds the amounts of the quote
buildIntentsNep413Payload(quote, nonceOk) ==
    IF nonceOk THEN Return([amount_out |-> quote.amount_out, recipient |-> "intents"])
    ELSE Throw("Nonce must be 32 bytes")

\* a value parsed from a log or a success value of the outcome: its scheme,
\* its signature and whether it has the shape of that scheme
ChainSigValue(scheme, signature, shaped) ==
    [scheme |-> scheme, signature |-> signature, shaped |-> shaped]
isChainSigResponse(value) ==
    value.scheme \in {"Ed25519", "Secp256k1"} /\ value.shaped

\* collectChainSigResponses over the values of the outcome, in order
collectChainSigResponses(values) == SelectSeq(values, isChainSigResponse)

\* the outcomes of proposeExecution: the values found in the receipts, or a
\* result without receipts_outcome
ResultOnly == [resultOnly |-> TRUE]
SwapOutcomes ==
    {ResultOnly}
      \cup {[values |-> v] : v \in
              {<<>>,
               <<ChainSigValue("Secp256k1", <<1>>, TRUE)>>,
               <<ChainSigValue("Ed25519", <<3>>, FALSE)>>,
               <<ChainSigValue("Ed25519", <<7, 9>>, TRUE)>>,
               <<ChainSigValue("Secp256k1", <<1>>, TRUE),
                 ChainSigValue("Ed25519", <<5>>, TRUE)>>}}

\* extractChainSigResponses: iterating a missing receipts_outcome throws
extractChainSigResponses(o) ==
    IF "values" \in DOMAIN o THEN Return(collectChainSigResponses(o.values))
    ELSE Throw("TypeError")

\* extractEd25519Signature: the signature of the first Ed25519 response, or null
RECURSIVE extractEd25519Signature(_)
extractEd25519SignatureAnyScheme(responses) ==
    IF responses = <<>> THEN JNull
    ELSE [t |-> "bytes", bytes |-> Head(responses).signature]
extractEd25519Signature(responses) ==
    IF responses = <<>> THEN JNull
    ELSE IF Head(responses).scheme = "Ed25519"
    THEN [t |-> "bytes", bytes |-> Head(responses).signature]
    ELSE extractEd25519Signature(Tail(responses))

NoEd25519Returned == "No Ed25519 signature returned; proposal may require voting."

\* the interval and timeout of the balance wait
SwapWaitArgs == waitArgs("swapViaIntents", swapping.params.waitForBalance.options)

InitSwap ==
    /\ pc = "idle"
    /\ outcome = ReceiptsOutcome(<<>>)
    /\ kernel = [latest |-> 1, pending |-> {1}, clock |-> 0]
    /\ Idle
    /\ signing = NoResult /\ broadcasting = NoResult
    /\ waiting = NoResult /\ retrying = NoResult
    /\ building = NoResult /\ locking = NoResult
    /\ \E params \in SwapParams :
          swapping = [pc |-> "start", params |-> params, quote |-> Undefined,
                      requests |-> <<>>, steps |-> <<>>,
                      payload |-> NoResult, outcome |-> NoResult,
                      signature |-> <<>>, published |-> NoResult,
                      intentHash |-> "",
                      balance |-> StartBalance, settled |-> "no", spent |-> FALSE,
                      baseline |-> 0, polls |-> <<>>, elapsed |-> 0,
                      result |-> NoResult]

\* the swap ends with r
SwapEnds(s, r) == [s EXCEPT !.pc = "done", !.result = r]

\* the quote is the caller's, or getIntentsSwapQuote sends its request
SwapStarts ==
    /\ swapping.pc = "start"
    /\ swapping' =
          IF quoteSupplied(swapping.params.quote)
          THEN [swapping EXCEPT !.pc = "derive", !.quote = swapping.params.quote]
          ELSE [swapping EXCEPT !.pc = "quoting", !.requests = Append(@, "quote"),
                                !.steps = Append(@, "quote")]
    /\ UNCHANGED <<clientVars, signing, broadcasting, waiting, retrying, building, locking>>

\* the solver answers the quote request
QuoteAnswers ==
    /\ swapping.pc = "quoting"
    /\ \E response \in QuoteResponses :
          LET quote == getIntentsSwapQuote(response) IN
          swapping' =
              IF Returned(quote)
              THEN [swapping EXCEPT !.pc = "derive", !.quote = quote.ret]
              ELSE SwapEnds(swapping, quote)
    /\ UNCHANGED <<clientVars, signing, broadcasting, waiting, retrying, building, locking>>

\* deriveChainSigAccount returns or throws; then the payload is built from the
\* quote and proposeExecution is called with it
Derives ==
    /\ swapping.pc = "derive"
    /\ LET derived == [swapping EXCEPT !.steps = Append(@, "derive")]
           payload == buildIntentsNep413Payload(swapping.quote, swapping.params.nonceOk)
           built == [derived EXCEPT !.steps = Append(@, "payload")]
       IN  \/ swapping' = SwapEnds(derived, Throw("RpcError"))
           \/ swapping' =
                 IF Thrown(payload) THEN SwapEnds(built, payload)
                 ELSE [built EXCEPT !.pc = "propose", !.payload = payload.ret,
                                    !.steps = Append(@, "propose")]
    /\ UNCHANGED <<clientVars, signing, broadcasting, waiting, retrying, building, locking>>

\* proposeExecution returns an outcome or throws; the Ed25519 signature is
\* extracted from the outcome and the intent is published with it
SwapProposes ==
    /\ swapping.pc = "propose"
    /\ \/ swapping' = SwapEnds(swapping, Throw("RpcError"))
       \/ \E o \in SwapOutcomes :
             LET got == [swapping EXCEPT !.outcome = o,
                                         !.steps = Append(@, "extract")]
                 responses == extractChainSigResponses(o)
                 signatureBytes == extractEd25519Signature(responses.ret)
             IN  swapping' =
                   IF Thrown(responses) THEN SwapEnds(got, responses)
                   ELSE IF signatureBytes = JNull
                   THEN SwapEnds(got, Throw(NoEd25519Returned))
                   ELSE [got EXCEPT
                           !.pc = "publishing",
                           !.signature = signatureBytes.bytes,
                           !.steps = Append(@, "publish"),
                           !.requests = Append(@, "publish_intent"),
                           !.published = publishRequest(swapping.quote, swapping.payload,
                                                        signatureBytes.bytes)]
    /\ UNCHANGED <<clientVars, signing, broadcasting, waiting, retrying, building, locking>>

\* what swapViaIntents returns
SwapResult(s, swappedAmount) ==
    Return([quote |-> s.quote, intentHash |-> s.intentHash,
            signature |-> s.signature, swappedAmount |-> swappedAmount])

\* the solver answers the publish request; with waitForBalance the baseline is
\* the caller's initial balance or is read next
PublishAnswers ==
    /\ swapping.pc = "publishing"
    /\ \E response \in PublishResponses :
          LET intentHash == publishIntentsSwap(response) IN
          swapping' =
              IF Thrown(intentHash) THEN SwapEnds(swapping, intentHash)
              ELSE LET s == [swapping EXCEPT !.intentHash = intentHash.ret] IN
                   IF ~s.params.waitForBalance.set
                   THEN SwapEnds(s, SwapResult(s, Undefined))
                   ELSE IF s.params.waitForBalance.initialBalance
                   THEN [s EXCEPT !.pc = "poll", !.baseline = StartBalance,
                                  !.steps = Append(@, "poll")]
                   ELSE [s EXCEPT !.pc = "baseline"]
    /\ UNCHANGED <<clientVars, signing, broadcasting, waiting, retrying, building, locking>>

\* getIntentsMtBalance gives the baseline, or throws
Baseline ==
    /\ swapping.pc = "baseline"
    /\ \/ swapping' = [swapping EXCEPT !.pc = "poll", !.baseline = swapping.balance,
                                       !.steps = Append(@, "poll")]
       \/ swapping' = SwapEnds(swapping, Throw("RpcError"))
    /\ UNCHANGED <<clientVars, signing, broadcasting, waiting, retrying, building, locking>>

\* one poll of waitUntil: the balance is read (or the view throws); the swap
\* returns when it is above the baseline, throws when timed out, sleeps otherwise
SwapPollsAtLeast(current, baseline) == current >= baseline
SwapPollSettled(current, baseline) == current > baseline
SwapPolls ==
    /\ swapping.pc = "poll"
    /\ \/ swapping' = SwapEnds(swapping, Throw("RpcError"))
       \/ LET current == swapping.balance
              polled == [swapping EXCEPT !.polls = Append(@, current)]
          IN  swapping' =
                IF SwapPollSettled(current, swapping.baseline)
                THEN SwapEnds(polled, SwapResult(polled, JNum(current - swapping.baseline)))
                ELSE IF timedOut(SwapWaitArgs, swapping.elapsed)
                THEN SwapEnds(polled, Throw(SwapWaitArgs.message))
                ELSE [polled EXCEPT !.pc = "sleep"]
    /\ UNCHANGED <<clientVars, signing, broadcasting, waiting, retrying, building, locking>>

\* Wait.sleep({ ms: interval }) ends
SwapSleepEnds ==
    /\ swapping.pc = "sleep"
    /\ swapping' = [swapping EXCEPT
          !.pc = "poll",
          !.steps = Append(@, "poll"),
          !.elapsed = Elapse(SwapWaitArgs, @, SleepTime(SwapWaitArgs.interval))]
    /\ UNCHANGED <<clientVars, signing, broadcasting, waiting, retrying, building, locking>>

\* the solver settles the published intent: the balance rises by the amount of
\* the quote
Settles ==
    /\ swapping.published # NoResult
    /\ swapping.settled = "no"
    /\ swapping' = [swapping EXCEPT !.balance = @ + swapping.quote.amount_out,
                                    !.settled = swapping.pc]
    /\ UNCHANGED <<clientVars, signing, broadcasting, waiting, retrying, building, locking>>

\* another transfer of the same account lowers the balance
Spends ==
    /\ swapping.pc \in {"poll", "sleep"}
    /\ ~swapping.spent
    /\ swapping' = [swapping EXCEPT !.balance = @ - Spent, !.spent = TRUE]
    /\ UNCHANGED <<clientVars, signing, broadcasting, waiting, retrying, building, locking>>

\* the steps of the call itself
SwapSteps ==
    \/ SwapStarts
    \/ QuoteAnswers
    \/ Derives
    \/ SwapProposes
    \/ PublishAnswers
    \/ Baseline
    \/ SwapPolls
    \/ SwapSleepEnds
NextSwap ==
    \/ SwapSteps
    \/ Settles
    \/ Spends
\* the event loop resumes the call when the awaited answer or timer is there
SpecSwap == InitSwap /\ [][NextSwap]_vars /\ WF_vars(SwapSteps)

(***************************************************************************)
(* buildNearTransaction and resolveNearTransactionSigner (client.ts).      *)
(***************************************************************************)
\* BigInt(v) for a number or a string: digits are read, the empty string is 0,
\* any other string throws
ToBigInt(v) ==
    IF IsNumber(v) THEN Return(v.n)
    ELSE IF v.c = <<>> THEN Return(0)
    ELSE IF IsDigitString(v) THEN Return(ParseInt(v.c))
    ELSE Throw("SyntaxError")

\* the signer descriptors: a wallet account, a chain-signature account, or an
\* explicit signer with its nonce
TransactionSigners ==
    {[type |-> "Account"], [type |-> "ChainSig"]}
      \cup {[type |-> "Explicit", nonce |-> n] :
              n \in {JNum(0), JNum(7), JChars(<<"4", "1">>), JChars(<<>>),
                     JChars(<<"x">>)}}

\* the nonce of an access key as the RPC renders it: a number or a string
AccessKeyNonce(n, asString) == IF asString THEN JChars(ToDigits(n)) ELSE JNum(n)

\* the signer a lookup resolved
ResolvedSigner(signerId, nonce) ==
    [signerId |-> signerId, publicKey |-> "ed25519:key", nonce |-> nonce]

\* the nonce createTransaction is given
createTransactionSameNonce(nonce) == nonce
createTransactionNonce(nonce) == nonce + 1

InitBuild ==
    /\ pc = "idle"
    /\ outcome = ReceiptsOutcome(<<>>)
    /\ kernel = [latest |-> 1, pending |-> {1}, clock |-> 0]
    /\ Idle
    /\ signing = NoResult /\ broadcasting = NoResult /\ waiting = NoResult
    /\ swapping = NoResult /\ retrying = NoResult /\ locking = NoResult
    /\ \E signer \in TransactionSigners : \E n \in 0..MaxNonce :
          building = [pc |-> "resolve", signer |-> signer, accessKey |-> n,
                      looked |-> -1, resolved |-> NoResult,
                      transaction |-> NoResult, result |-> NoResult]

\* the call ends with r
BuildEnds(r) == [building EXCEPT !.pc = "done", !.result = r]

\* the signer is resolved: the explicit tuple is trusted, a wallet account looks
\* up its access key, a chain-signature account is derived first
ResolveSigner ==
    /\ building.pc = "resolve"
    /\ \/ /\ building.signer.type = "Explicit"
          /\ LET nonce == ToBigInt(building.signer.nonce) IN
             building' =
                 IF Thrown(nonce) THEN BuildEnds(nonce)
                 ELSE [building EXCEPT !.pc = "block",
                                       !.resolved = ResolvedSigner("explicit", nonce.ret)]
       \/ /\ building.signer.type = "Account"
          /\ \E asString \in BOOLEAN :
                building' = [building EXCEPT
                    !.pc = "block", !.looked = building.accessKey,
                    !.resolved = ResolvedSigner("wallet",
                        ToBigInt(AccessKeyNonce(building.accessKey, asString)).ret)]
       \/ /\ building.signer.type = "ChainSig"
          /\ building' = [building EXCEPT !.pc = "accessKey"]
       \/ /\ building.signer.type # "Explicit"
          /\ building' = BuildEnds(Throw("RpcError"))
    /\ UNCHANGED <<clientVars, signing, broadcasting, waiting, swapping, retrying, locking>>

\* view_access_key of the derived account answers, or throws
ViewAccessKey ==
    /\ building.pc = "accessKey"
    /\ \/ \E asString \in BOOLEAN :
             building' = [building EXCEPT
                 !.pc = "block", !.looked = building.accessKey,
                 !.resolved = ResolvedSigner("derived",
                     ToBigInt(AccessKeyNonce(building.accessKey, asString)).ret)]
       \/ building' = BuildEnds(Throw("RpcError"))
    /\ UNCHANGED <<clientVars, signing, broadcasting, waiting, swapping, retrying, locking>>

\* provider.block answers and the transaction is created, or the call throws
BlockFetched ==
    /\ building.pc = "block"
    /\ \/ \E blockHash \in {"b1", "b2"} :
             LET transaction ==
                   [signerId |-> building.resolved.signerId,
                    publicKey |-> building.resolved.publicKey,
                    nonce |-> createTransactionNonce(building.resolved.nonce),
                    blockHash |-> blockHash]
             IN building' = [building EXCEPT
                   !.pc = "done", !.transaction = transaction,
                   !.result = Return([transaction |-> transaction,
                                      signerId |-> building.resolved.signerId,
                                      publicKey |-> building.resolved.publicKey,
                                      nonce |-> building.resolved.nonce])]
       \/ building' = BuildEnds(Throw("RpcError"))
    /\ UNCHANGED <<clientVars, signing, broadcasting, waiting, swapping, retrying, locking>>

\* another transaction signed with the same access key is accepted
AccessKeyUsed ==
    /\ building.pc # "done"
    /\ building.accessKey < MaxNonce
    /\ building' = [building EXCEPT !.accessKey = @ + 1]
    /\ UNCHANGED <<clientVars, signing, broadcasting, waiting, swapping, retrying, locking>>

NextBuild ==
    \/ ResolveSigner
    \/ ViewAccessKey
    \/ BlockFetched
    \/ AccessKeyUsed
SpecBuild == InitBuild /\ [][NextBuild]_vars

(***************************************************************************)
(* DewClient.ensureLock (client.ts): take the kernel's global lock unless  *)
(* the caller holds it already.                                            *)
(***************************************************************************)
Caller == JStr("alice")
OtherClient == JStr("bob")

\* holder && holder !== accountId
heldByOther(holder, accountId) == Truthy(holder) /\ holder # accountId

\* if (policyId) proposeExecution({ policyId }) else acquireLock()
lockMethod(policyId) == IF Truthy(policyId) THEN policyId ELSE JStr("acquire_lock")

\* what ensureLock returns
LockResult(acquired, accountId) == Return([acquired |-> acquired, accountId |-> accountId])

\* lockHolder is the holder in the kernel; holder is what get_lock_holder
\* answered; proposal is the state of the caller's acquire proposal
InitLock ==
    /\ pc = "idle"
    /\ outcome = ReceiptsOutcome(<<>>)
    /\ kernel = [latest |-> 1, pending |-> {1}, clock |-> 0]
    /\ Idle
    /\ signing = NoResult /\ broadcasting = NoResult
    /\ waiting = NoResult /\ swapping = NoResult
    /\ retrying = NoResult /\ building = NoResult
    /\ \E policyId \in {Undefined, JStr("acquire_policy")}, agent \in BOOLEAN,
          lockHolder \in {JNull, Caller, OtherClient} :
          locking = [pc |-> "getLockHolder", policyId |-> policyId, agent |-> agent,
                     lockHolder |-> lockHolder, holder |-> Undefined,
                     accountId |-> Undefined, method |-> Undefined,
                     sent |-> 0, sentWhile |-> Undefined,
                     proposal |-> "none", atReturn |-> Undefined,
                     result |-> NoResult]

LockEnds(l, r) == [l EXCEPT !.pc = "done", !.result = r, !.atReturn = l.lockHolder]

\* the view get_lock_holder answers, or throws
GetLockHolder ==
    /\ locking.pc = "getLockHolder"
    /\ \/ locking' = [locking EXCEPT !.pc = "resolveCallerId",
                                     !.holder = locking.lockHolder]
       \/ locking' = LockEnds(locking, Throw("RpcError"))
    /\ UNCHANGED <<clientVars, signing, broadcasting, waiting, swapping, retrying, building>>

\* resolveCallerId gives the account of the agent or the wallet; then the
\* holder is compared, and the acquire transaction is sent if there is none:
\* acquireLock proposes the core function acquire_lock, a policy id proposes
\* that policy
ResolveCallerId ==
    /\ locking.pc = "resolveCallerId"
    /\ LET l == [locking EXCEPT !.accountId = Caller] IN
       locking' =
          IF heldByOther(l.holder, l.accountId)
          THEN LockEnds(l, Throw("Global lock held by"))
          ELSE IF ~Truthy(l.holder)
          THEN [l EXCEPT !.pc = "propose", !.sent = @ + 1,
                         !.method = lockMethod(l.policyId),
                         !.sentWhile = l.lockHolder]
          ELSE LockEnds(l, LockResult(FALSE, l.accountId))
    /\ UNCHANGED <<clientVars, signing, broadcasting, waiting, swapping, retrying, building>>

\* the kernel takes the proposal: it stays pending until it has its votes, or
\* it executes at once and gives the lock when the lock is free; a lost
\* request and a rejected one both throw
LockProposed ==
    /\ locking.pc = "propose"
    /\ \/ locking' = LockEnds(locking, Throw("RpcError"))
       \/ locking' = [locking EXCEPT !.pc = "proposed", !.proposal = "pending"]
       \/ locking' =
            IF locking.lockHolder = JNull
            THEN [locking EXCEPT !.pc = "proposed", !.proposal = "executed",
                                 !.lockHolder = locking.accountId]
            ELSE LockEnds([locking EXCEPT !.proposal = "rejected"],
                          Throw("KernelRejected"))
    /\ UNCHANGED <<clientVars, signing, broadcasting, waiting, swapping, retrying, building>>

\* the result of the proposal is not looked at
LockReturns ==
    /\ locking.pc = "proposed"
    /\ locking' = LockEnds(locking, LockResult(TRUE, locking.accountId))
    /\ UNCHANGED <<clientVars, signing, broadcasting, waiting, swapping, retrying, building>>

\* another client takes the free lock, or gives its lock back
OtherAcquires ==
    /\ locking.lockHolder = JNull
    /\ locking' = [locking EXCEPT !.lockHolder = OtherClient]
    /\ UNCHANGED <<clientVars, signing, broadcasting, waiting, swapping, retrying, building>>

OtherReleases ==
    /\ locking.lockHolder = OtherClient
    /\ locking' = [locking EXCEPT !.lockHolder = JNull]
    /\ UNCHANGED <<clientVars, signing, broadcasting, waiting, swapping, retrying, building>>

\* the pending proposal gets its votes and executes
LockVoted ==
    /\ locking.proposal = "pending"
    /\ locking' =
          IF locking.lockHolder = JNull
          THEN [locking EXCEPT !.proposal = "executed", !.lockHolder = locking.accountId]
          ELSE [locking EXCEPT !.proposal = "rejected"]
    /\ UNCHANGED <<clientVars, signing, broadcasting, waiting, swapping, retrying, building>>

NextLock ==
    \/ GetLockHolder
    \/ ResolveCallerId
    \/ LockProposed
    \/ LockReturns
    \/ OtherAcquires
    \/ OtherReleases
    \/ LockVoted

SpecLock == InitLock /\ [][NextLock]_vars

\* what the code does next: return or throw r, or await a view
Done(r) == [done |-> r]
Await(view, id) == [await |-> view, proposalId |-> id]

\* get_proposal: the pending proposal as the kernel holds it now, or null
getProposal(id) ==
    IF id \in kernel.pending THEN [id |-> id, clock |-> kernel.clock] ELSE JNull

ProposalNotFoundAfterCreation == "Proposal not found after creation."
ProposalNotFoundAfterVote == "Proposal not found after vote."

\* proposeChainSigTransaction after callKernel returned
proposeChainSigTransactionSwallowsMissingId(o) ==
    IF ~hasReceiptsOutcome(o) THEN Await("getLatestProposalId", 0)
    ELSE IF Thrown(extractProposalId(o)) THEN Await("getLatestProposalId", 0)
    ELSE IF wasProposalExecuted(o)
         THEN Done(Return([executed |-> TRUE, proposalId |-> extractProposalId(o).ret,
                           signatures |-> extractMPCSignatures(o), outcome |-> o]))
    ELSE Done(Return([executed |-> FALSE, proposalId |-> extractProposalId(o).ret,
                      outcome |-> o]))
proposeChainSigTransactionAfterCall(o) ==
    IF ~hasReceiptsOutcome(o) THEN Await("getLatestProposalId", 0)
    ELSE IF Thrown(extractProposalId(o)) THEN Done(extractProposalId(o))
    ELSE IF wasProposalExecuted(o)
         THEN Done(Return([executed |-> TRUE, proposalId |-> extractProposalId(o).ret,
                           signatures |-> extractMPCSignatures(o), outcome |-> o]))
    ELSE Done(Return([executed |-> FALSE, proposalId |-> extractProposalId(o).ret,
                      outcome |-> o]))

\* proposeChainSigTransaction on a result-only response, after both views
proposeChainSigTransactionAfterViews(o, proposalId, proposal) ==
    IF proposal = JNull \/ Len(extractMPCSignaturesFromResultValue(o)) > 0
    THEN Return([executed |-> TRUE, proposalId |-> proposalId,
                 signatures |-> extractMPCSignaturesFromResultValue(o), outcome |-> o])
    ELSE Return([executed |-> FALSE, proposalId |-> proposalId, outcome |-> o])

proposeNearActionsAlwaysExecuted(o) ==
    IF ~hasReceiptsOutcome(o) THEN Await("getLatestProposalId", 0)
    ELSE IF Thrown(extractProposalId(o)) THEN Done(extractProposalId(o))
    ELSE Done(Return([executed |-> TRUE, proposalId |-> extractProposalId(o).ret,
                      outcome |-> o]))
proposeNearActionsAfterCall(o) ==
    IF ~hasReceiptsOutcome(o) THEN Await("getLatestProposalId", 0)
    ELSE IF Thrown(extractProposalId(o)) THEN Done(extractProposalId(o))
    ELSE Done(Return([executed |-> wasProposalExecuted(o),
                      proposalId |-> extractProposalId(o).ret, outcome |-> o]))

proposeNearActionsAfterViews(o, proposalId, proposal) ==
    Return([executed |-> (proposal = JNull), proposalId |-> proposalId, outcome |-> o])

proposeExecutionKernelCoreFunctionAfterCall(o) ==
    IF ~hasReceiptsOutcome(o) THEN Await("getLatestProposalId", 0)
    ELSE IF Thrown(extractProposalId(o)) THEN Done(extractProposalId(o))
    ELSE IF wasProposalExecuted(o)
         THEN Done(Return([executed |-> TRUE, proposalId |-> extractProposalId(o).ret]))
    ELSE Await("getProposal", extractProposalId(o).ret)

proposeExecutionKernelCoreFunctionWithoutSnapshot(o, proposalId, proposal) ==
    IF ~hasReceiptsOutcome(o)
    THEN IF proposal = JNull
         THEN Return([executed |-> TRUE, proposalId |-> proposalId])
         ELSE Return([executed |-> FALSE, proposalId |-> proposalId, proposal |-> proposal])
    ELSE IF proposal = JNull THEN Throw(ProposalNotFoundAfterCreation)
    ELSE Return([executed |-> FALSE, proposalId |-> proposalId, outcome |-> o])
proposeExecutionKernelCoreFunctionAfterViews(o, proposalId, proposal) ==
    IF ~hasReceiptsOutcome(o)
    THEN IF proposal = JNull
         THEN Return([executed |-> TRUE, proposalId |-> proposalId])
         ELSE Return([executed |-> FALSE, proposalId |-> proposalId, proposal |-> proposal])
    ELSE IF proposal = JNull THEN Throw(ProposalNotFoundAfterCreation)
    ELSE Return([executed |-> FALSE, proposalId |-> proposalId, proposal |-> proposal])

voteOnProposalAfterCall(o, proposalId) ==
    IF ~hasReceiptsOutcome(o)
    THEN IF Len(extractMPCSignaturesFromResultValue(o)) > 0
         THEN Done(Return([executed |-> TRUE, proposalId |-> proposalId,
                           signatures |-> extractMPCSignaturesFromResultValue(o)]))
         ELSE Await("getProposal", proposalId)
    ELSE IF wasProposalExecuted(o)
         THEN IF Len(extractMPCSignatures(o)) > 0
              THEN Done(Return([executed |-> TRUE, proposalId |-> proposalId,
                                signatures |-> extractMPCSignatures(o)]))
              ELSE Done(Return([executed |-> TRUE, proposalId |-> proposalId]))
    ELSE Await("getProposal", proposalId)

\* voteOnProposal returning Pending without the fetched proposal
voteOnProposalWithoutSnapshot(o, proposalId, proposal) ==
    IF proposal = JNull /\ hasReceiptsOutcome(o) THEN Throw(ProposalNotFoundAfterVote)
    ELSE Return([executed |-> (proposal = JNull), proposalId |-> proposalId])
voteOnProposalAfterViews(o, proposalId, proposal) ==
    IF ~hasReceiptsOutcome(o)
    THEN IF proposal = JNull
         THEN Return([executed |-> TRUE, proposalId |-> proposalId])
         ELSE Return([executed |-> FALSE, proposalId |-> proposalId, proposal |-> proposal])
    ELSE IF proposal = JNull THEN Throw(ProposalNotFoundAfterVote)
    ELSE Return([executed |-> FALSE, proposalId |-> proposalId, proposal |-> proposal])

AfterCall(o, proposalId) ==
    CASE op \in {"proposeChainSigTransaction", "execute"} -> proposeChainSigTransactionAfterCall(o)
      [] op = "proposeNearActions" -> proposeNearActionsAfterCall(o)
      [] op = "proposeExecutionKernelCoreFunction" -> proposeExecutionKernelCoreFunctionAfterCall(o)
      [] op = "voteOnProposal" -> voteOnProposalAfterCall(o, proposalId)

AfterViews(o, proposalId, proposal) ==
    CASE op \in {"proposeChainSigTransaction", "execute"} ->
            proposeChainSigTransactionAfterViews(o, proposalId, proposal)
      [] op = "proposeNearActions" -> proposeNearActionsAfterViews(o, proposalId, proposal)
      [] op = "proposeExecutionKernelCoreFunction" ->
            proposeExecutionKernelCoreFunctionAfterViews(o, proposalId, proposal)
      [] op = "voteOnProposal" -> voteOnProposalAfterViews(o, proposalId, proposal)

\* what the kernel's receipts can log and return for a call
KernelLines(n) ==
    {CreatedNumberLine(n), EventLine("proposal_executed", ProposalData(JNum(n))),
     Ed25519Line}
KernelStatuses ==
    {SuccessStatus(EmptyText), SuccessStatus(JsonText(JNum(7))),
     SuccessStatus(JsonText(Ed25519Value))}
\* what a result-only transport (an agent) can return
ResultValues == {JNull, Ed25519Value, SignatureArray, NotASignatureValue}

UnsignedTx == [nonce |-> 0, receiverId |-> 1]

\* options.chainSig of execute: the adapter (none, the built-in NearWasm adapter
\* or a caller-supplied one), whether an unsigned transaction is available, and
\* the broadcast option (left unset, true or false)
ExecuteOptions ==
    {[adapter |-> "none", unsignedTx |-> FALSE, broadcast |-> "unset"]}
    \cup [adapter : {"NearWasm"}, unsignedTx : {TRUE}, broadcast : {"unset", "true", "false"}]
    \cup [adapter : {"custom"}, unsignedTx : BOOLEAN, broadcast : {"unset", "true", "false"}]

\* chainSigOptions?.chainSig?.broadcast === false
broadcastDisabledUnlessTrue(opt) == opt.broadcast # "true"
broadcastDisabledNever(opt) == FALSE
broadcastDisabled(opt) == opt.broadcast = "false"

(***************************************************************************)
(* The built-in NearWasm adapter: the signed transaction is the borsh      *)
(* encoding of the transaction, the key type and the signature bytes, as   *)
(* base64 text; broadcastNearTransaction decodes it again.  A transaction  *)
(* is modelled by two one-byte fields.                                     *)
(***************************************************************************)
\* Uint8Array.from(numbers): every number modulo 2^8
Uint8ArrayFrom(numbers) == [i \in 1..Len(numbers) |-> numbers[i].n % 256]

\* KeyType.ED25519
KeyTypeED25519 == 0

\* SignedTransaction.encode and SignedTransaction.decode
EncodeTransaction(transaction) == <<transaction.nonce, transaction.receiverId>>
SignedTransactionEncode(transaction, keyType, data) ==
    EncodeTransaction(transaction) \o <<keyType>> \o data
SignedTransactionDecode(bytes) ==
    [transaction |-> [nonce |-> bytes[1], receiverId |-> bytes[2]],
     signature |-> [keyType |-> bytes[3], data |-> SubSeq(bytes, 4, Len(bytes))]]

\* base64 text is a sequence of 6-bit symbols; Pad is the symbol "="
Pad == 64

\* Buffer.toString("base64"), as a hand-written encoder that forgets the
\* last, incomplete group would compute it
RECURSIVE ToBase64DropsLastGroup(_)
ToBase64DropsLastGroup(bytes) ==
    IF Len(bytes) < 3 THEN <<>>
    ELSE <<bytes[1] \div 4,
           (bytes[1] % 4) * 16 + bytes[2] \div 16,
           (bytes[2] % 16) * 4 + bytes[3] \div 64,
           bytes[3] % 64>> \o ToBase64DropsLastGroup(SubSeq(bytes, 4, Len(bytes)))
\* Buffer.toString("base64")
RECURSIVE ToBase64(_)
ToBase64(bytes) ==
    IF bytes = <<>> THEN <<>>
    ELSE IF Len(bytes) = 1
    THEN <<bytes[1] \div 4, (bytes[1] % 4) * 16, Pad, Pad>>
    ELSE IF Len(bytes) = 2
    THEN <<bytes[1] \div 4,
           (bytes[1] % 4) * 16 + bytes[2] \div 16,
           (bytes[2] % 16) * 4,
           Pad>>
    ELSE <<bytes[1] \div 4,
           (bytes[1] % 4) * 16 + bytes[2] \div 16,
           (bytes[2] % 16) * 4 + bytes[3] \div 64,
           bytes[3] % 64>> \o ToBase64(SubSeq(bytes, 4, Len(bytes)))

\* Buffer.from(text, "base64")
RECURSIVE FromBase64(_)
FromBase64(text) ==
    IF Len(text) < 4 THEN <<>>
    ELSE IF text[3] = Pad
    THEN <<text[1] * 4 + text[2] \div 16>>
    ELSE IF text[4] = Pad
    THEN <<text[1] * 4 + text[2] \div 16,
           (text[2] % 16) * 16 + text[3] \div 4>>
    ELSE <<text[1] * 4 + text[2] \div 16,
           (text[2] % 16) * 16 + text[3] \div 4,
           (text[3] % 4) * 64 + text[4]>> \o FromBase64(SubSeq(text, 5, Len(text)))

NoEd25519Signature == "No Ed25519 signature found for NearWasm ChainSig transaction."

\* createNearWasmChainSigAdapter().finalizeTransactionSigning
NearWasmFinalize(transaction, signatures) ==
    IF pickEd25519Signature(signatures) = JNull
    THEN Throw(NoEd25519Signature)
    ELSE Return(ToBase64(SignedTransactionEncode(transaction, KeyTypeED25519,
            Uint8ArrayFrom(Get(pickEd25519Signature(signatures), "signature").a))))

\* broadcastNearTransaction, lines 31-33: the signed transaction it sends
DecodeSignedTx(signedTx) == SignedTransactionDecode(FromBase64(signedTx))

\* the inputs: unsigned transactions and the entries of a signature list
Transactions == [nonce : {0, 255}, receiverId : {1, 128}]
Ed25519Of(scheme, bytes) ==
    JObj([scheme |-> JStr(scheme), signature |-> JArr([i \in 1..Len(bytes) |-> JNum(bytes[i])])])
Ed25519Values ==
    {Ed25519Value, Ed25519Of("ed25519", <<0, 255>>), Ed25519Of("ED25519", <<255>>),
     Ed25519Of("Ed25519", <<1, 2, 63>>)}
SigningValues == Ed25519Values \cup {Secp256k1Value, NotASignatureValue}

SigningIdle(transaction) ==
    [pc |-> "collect", transaction |-> transaction, signatures |-> <<>>, given |-> <<>>,
     picked |-> NoResult, pickedAgain |-> NoResult, signedTx |-> NoResult,
     decoded |-> NoResult]

InitSigning ==
    /\ pc = "idle"
    /\ outcome = ReceiptsOutcome(<<>>)
    /\ kernel = [latest |-> 0, pending |-> {}, clock |-> 0]
    /\ Idle
    /\ \E transaction \in Transactions : signing = SigningIdle(transaction)
    /\ broadcasting = NoResult /\ waiting = NoResult /\ swapping = NoResult
    /\ retrying = NoResult
    /\ building = NoResult /\ locking = NoResult

\* one more signature is extracted for the proposal
SignatureArrives ==
    /\ signing.pc = "collect"
    /\ Len(signing.signatures) < MaxSignatures
    /\ \E v \in SigningValues :
          signing' = [signing EXCEPT !.signatures = Append(@, v)]
    /\ UNCHANGED <<clientVars, broadcasting, waiting, swapping, retrying, building, locking>>

\* pickEd25519Signature is called on the list
Pick ==
    /\ signing.pc = "collect"
    /\ signing' = [signing EXCEPT !.pc = "picked", !.given = signing.signatures,
                                  !.picked = pickEd25519Signature(signing.signatures)]
    /\ UNCHANGED <<clientVars, broadcasting, waiting, swapping, retrying, building, locking>>

\* and called again on the same list
PickAgain ==
    /\ signing.pc = "picked"
    /\ signing' = [signing EXCEPT !.pc = "pickedAgain",
                                  !.pickedAgain = pickEd25519Signature(signing.signatures)]
    /\ UNCHANGED <<clientVars, broadcasting, waiting, swapping, retrying, building, locking>>

\* the adapter finalizes the transaction with the list
Finalize ==
    /\ signing.pc = "collect"
    /\ signing' = [signing EXCEPT !.pc = "finalized", !.given = signing.signatures,
                      !.signedTx = NearWasmFinalize(signing.transaction, signing.signatures)]
    /\ UNCHANGED <<clientVars, broadcasting, waiting, swapping, retrying, building, locking>>

\* broadcastNearTransaction decodes the signed transaction
DecodeSigned ==
    /\ signing.pc = "finalized"
    /\ Returned(signing.signedTx)
    /\ signing' = [signing EXCEPT !.pc = "decoded",
                                  !.decoded = DecodeSignedTx(signing.signedTx.ret)]
    /\ UNCHANGED <<clientVars, broadcasting, waiting, swapping, retrying, building, locking>>

NextSigning ==
    \/ SignatureArrives
    \/ Pick
    \/ PickAgain
    \/ Finalize
    \/ DecodeSigned
SpecSigning == InitSigning /\ [][NextSigning]_vars

(***************************************************************************)
(* broadcastNearTransaction (utils/broadcast.ts): the transaction is sent, *)
(* the final outcome comes back status by status, and the outcome is       *)
(* returned unless assertNoFailedReceipts throws.                          *)
(***************************************************************************)
\* a status that is a string, not an object
StatusWord(w) == [word |-> w]

\* extractFailure: null (JNull) or the failure found in a status
extractFailure(status) ==
    IF status = Undefined \/ "word" \in DOMAIN status THEN JNull
    ELSE IF "Failure" \in DOMAIN status
    THEN IF status.Failure \in {JNull, Undefined} THEN JStr("Failure") ELSE status.Failure
    ELSE IF "Unknown" \in DOMAIN status
    THEN IF status.Unknown \in {JNull, Undefined} THEN JStr("Unknown") ELSE status.Unknown
    ELSE JNull

\* formatFailure: a string as it is, anything else as JSON text
formatFailure(failure) == IF IsString(failure) THEN [text |-> failure.s] ELSE JsonText(failure)

TransactionFailed(failure) ==
    [message |-> "[NEAR] Transaction failed: ", receiptId |-> 0, reason |-> formatFailure(failure)]
ReceiptFailed(receiptId, failure) ==
    [message |-> "[NEAR] Receipt failed", receiptId |-> receiptId,
     reason |-> formatFailure(failure)]

\* the loop of assertNoFailedReceipts over the receipts from position i on
RECURSIVE assertReceiptsFrom(_, _)
assertReceiptsFrom(receipts, i) ==
    IF i > Len(receipts) THEN Return(Undefined)
    ELSE IF Truthy(extractFailure(receipts[i].status))
    THEN Throw(ReceiptFailed(receipts[i].id, extractFailure(receipts[i].status)))
    ELSE assertReceiptsFrom(receipts, i + 1)

\* assertNoFailedReceipts when it looks at the top-level status only
assertNoFailedReceiptsTopOnly(o) ==
    IF Truthy(extractFailure(o.transaction_outcome.status))
    THEN Throw(TransactionFailed(extractFailure(o.transaction_outcome.status)))
    ELSE Return(Undefined)
assertNoFailedReceipts(o) ==
    IF Truthy(extractFailure(o.transaction_outcome.status))
    THEN Throw(TransactionFailed(extractFailure(o.transaction_outcome.status)))
    ELSE IF ~hasReceiptsOutcome(o) THEN Return(Undefined)
    ELSE assertReceiptsFrom(o.receipts_outcome, 1)

\* broadcastNearTransaction after sendTransactionUntil returned o, and the
\* adapter's broadcastTx around it
broadcastNearTransaction(o) ==
    IF Thrown(assertNoFailedReceipts(o)) THEN assertNoFailedReceipts(o) ELSE Return(o)
broadcastTx(o) ==
    IF Thrown(broadcastNearTransaction(o)) THEN broadcastNearTransaction(o)
    ELSE Return([txHash |-> o.transaction.hash, outcome |-> broadcastNearTransaction(o).ret])

\* the statuses the chain reports
ActionError == JObj([ActionError |-> JObj([kind |-> JStr("FunctionCallError")])])
BroadcastStatuses ==
    {[SuccessValue |-> EmptyText], [SuccessReceiptId |-> "r1"],
     [Failure |-> ActionError], [Failure |-> JStr("Exceeded the prepaid gas.")],
     [Failure |-> JNull], [Unknown |-> JNull], StatusWord("Started")}

InitBroadcasting ==
    /\ pc = "idle"
    /\ outcome = ReceiptsOutcome(<<>>)
    /\ kernel = [latest |-> 0, pending |-> {}, clock |-> 0]
    /\ Idle
    /\ \E status \in BroadcastStatuses :
          broadcasting =
            [pc |-> "sent", result |-> NoResult,
             outcome |-> [transaction |-> [hash |-> "txHash"],
                          transaction_outcome |-> [status |-> status],
                          receipts_outcome |-> <<>>]]
    /\ signing = NoResult /\ waiting = NoResult /\ swapping = NoResult
    /\ retrying = NoResult
    /\ building = NoResult /\ locking = NoResult

\* a receipt of the broadcast transaction ends with a status
BroadcastReceiptExecutes ==
    /\ broadcasting.pc = "sent"
    /\ Len(broadcasting.outcome.receipts_outcome) < MaxBroadcastReceipts
    /\ \E status \in BroadcastStatuses :
          broadcasting' = [broadcasting EXCEPT !.outcome.receipts_outcome =
              Append(@, [id |-> Len(@) + 1, status |-> status])]
    /\ UNCHANGED <<clientVars, signing, waiting, swapping, retrying, building, locking>>

\* sendTransactionUntil returns the final outcome and broadcastTx runs to its end
BroadcastReturns ==
    /\ broadcasting.pc = "sent"
    /\ broadcasting' = [broadcasting EXCEPT !.pc = "done",
                                            !.result = broadcastTx(broadcasting.outcome)]
    /\ UNCHANGED <<clientVars, signing, waiting, swapping, retrying, building, locking>>

NextBroadcasting ==
    \/ BroadcastReceiptExecutes
    \/ BroadcastReturns
SpecBroadcasting == InitBroadcasting /\ [][NextBroadcasting]_vars

\* adapter.finalizeTransactionSigning: the results it can have
finalizeTransactionSigning(adapter, transaction, signatures) ==
    IF adapter = "NearWasm"
    THEN {NearWasmFinalize(transaction, signatures)}
    ELSE {Throw("adapter failed"),
          Return([transaction |-> transaction, signatures |-> signatures])}

\* the object spread { ...proposal, key: value, ... }
Spread(proposal, more) ==
    [k \in DOMAIN proposal \cup DOMAIN more |->
        IF k \in DOMAIN more THEN more[k] ELSE proposal[k]]

\* execute returns the proposal as it is when it did not execute
executeFinalizesPending(proposal) == FALSE
executeReturnsProposal(proposal) == ~proposal.executed

Init ==
    /\ pc = "idle"
    /\ outcome = ReceiptsOutcome(<<>>)
    /\ kernel = [latest |-> 1, pending |-> {1}, clock |-> 0]
    /\ Idle /\ OthersIdle

\* a method of the client is called
Start ==
    /\ pc = "idle"
    /\ \E o \in Ops : \E retry \in CallerRetry(o) :
          /\ op' = o
          /\ locals' = [locals EXCEPT
                !.retry = retry,
                !.times = IF RetriesSubmission(o)
                          THEN retryTimes(submissionRetryOptions(retry)) ELSE 0,
                !.interval = IF RetriesSubmission(o)
                             THEN retryInterval(submissionRetryOptions(retry)) ELSE 0,
                !.proposalId = IF o = "voteOnProposal" THEN 1 ELSE 0]
    /\ pc' = "callKernel"
    /\ UNCHANGED <<outcome, classified, extracted, result, kernel, hist,
                 signing, broadcasting, waiting, swapping, retrying, building, locking>>

\* callKernel: the transaction reaches the kernel, which creates the proposal
\* (or counts the vote) and either executes it at once or leaves it pending
KernelReceives ==
    /\ pc = "callKernel"
    /\ kernel.latest < MaxId
    /\ \E executes \in BOOLEAN :
          kernel' =
            IF IsPropose(op)
            THEN [latest |-> kernel.latest + 1,
                  pending |-> IF executes THEN kernel.pending
                              ELSE kernel.pending \cup {kernel.latest + 1},
                  clock |-> kernel.clock + 1]
            ELSE [kernel EXCEPT
                    !.pending = IF executes THEN @ \ {locals.proposalId} ELSE @,
                    !.clock = @ + 1]
    /\ hist' = [hist EXCEPT !.sends = @ + 1, !.submitted = kernel.clock + 1,
                             !.own = IF IsPropose(op) THEN kernel.latest + 1 ELSE 0]
    /\ outcome' = ReceiptsOutcome(<<>>)
    /\ pc' = "chain"
    /\ UNCHANGED <<op, classified, extracted, result, locals,
                 signing, broadcasting, waiting, swapping, retrying, building, locking>>

\* callKernel throws (the request or its response is lost): retry() sleeps and
\* calls again while retries are left, otherwise the error reaches the caller
CallKernelThrows ==
    /\ pc \in {"callKernel", "chain"}
    /\ outcome = ReceiptsOutcome(<<>>)
    /\ hist.failures < MaxFailures
    /\ IF RetriesSubmission(op) /\ retryHasLeft(locals.times)
       THEN /\ locals' = [locals EXCEPT
                  !.times = retryAgain(locals.times, locals.interval).times,
                  !.interval = retryAgain(locals.times, locals.interval).interval]
            /\ hist' = [hist EXCEPT !.failures = @ + 1, !.slept = @ + locals.interval,
                                     !.lost = IF pc = "chain" THEN @ + 1 ELSE @]
            /\ pc' = "callKernel"
            /\ result' = result
       ELSE /\ result' = Throw("RpcError")
            /\ hist' = [hist EXCEPT !.failures = @ + 1,
                                     !.lost = IF pc = "chain" THEN @ + 1 ELSE @]
            /\ pc' = "done"
            /\ locals' = locals
    /\ UNCHANGED <<op, outcome, classified, extracted, kernel,
                 signing, broadcasting, waiting, swapping, retrying, building, locking>>

\* callKernel returns the final outcome of the transaction
CallKernelReturns ==
    /\ pc = "chain"
    /\ OutcomeIsFinal
    /\ pc' = "returned"
    /\ hist' = [hist EXCEPT !.returned = hist.sends]
    /\ UNCHANGED <<op, outcome, classified, extracted, result, locals, kernel,
                 signing, broadcasting, waiting, swapping, retrying, building, locking>>

\* callKernel returns a result-only response (no receipts_outcome)
CallKernelReturnsResult ==
    /\ pc = "chain"
    /\ outcome = ReceiptsOutcome(<<>>)
    /\ \E v \in ResultValues : outcome' = v
    /\ pc' = "returned"
    /\ hist' = [hist EXCEPT !.returned = hist.sends]
    /\ UNCHANGED <<op, classified, extracted, result, locals, kernel,
                 signing, broadcasting, waiting, swapping, retrying, building, locking>>

\* the call returns or throws r; inside execute a returned proposal is kept
Finish(r, l) ==
    IF op = "execute" /\ Returned(r)
    THEN /\ locals' = [l EXCEPT !.propose = r]
         /\ pc' = "executeAfterPropose"
         /\ result' = result
    ELSE /\ locals' = l
         /\ pc' = "done"
         /\ result' = r

\* the code between the return of callKernel and the next await or return
ContinueAfterCall ==
    /\ pc = "returned"
    /\ classified' = wasProposalExecuted(outcome)
    /\ LET next == AfterCall(outcome, locals.proposalId) IN
       IF "done" \in DOMAIN next
       THEN Finish(next.done, locals)
       ELSE /\ pc' = next.await
            /\ locals' = [locals EXCEPT !.proposalId =
                            IF next.await = "getProposal" THEN next.proposalId ELSE @]
            /\ result' = result
    /\ UNCHANGED <<op, outcome, extracted, kernel, hist,
                 signing, broadcasting, waiting, swapping, retrying, building, locking>>

\* getLatestProposalId returns
GetLatestProposalId ==
    /\ pc = "getLatestProposalId"
    /\ locals' = [locals EXCEPT !.proposalId = kernel.latest]
    /\ pc' = "getProposal"
    /\ UNCHANGED <<op, outcome, classified, extracted, result, kernel, hist,
                 signing, broadcasting, waiting, swapping, retrying, building, locking>>

\* getProposal returns, and the code runs on to its return
GetProposal ==
    /\ pc = "getProposal"
    /\ Finish(AfterViews(outcome, locals.proposalId, getProposal(locals.proposalId)),
              [locals EXCEPT !.proposal = getProposal(locals.proposalId)])
    /\ UNCHANGED <<op, outcome, classified, extracted, kernel, hist,
                 signing, broadcasting, waiting, swapping, retrying, building, locking>>

\* a view call throws
ViewThrows ==
    /\ pc \in {"getLatestProposalId", "getProposal"}
    /\ hist.failures < MaxFailures
    /\ hist' = [hist EXCEPT !.failures = @ + 1]
    /\ result' = Throw("RpcError")
    /\ pc' = "done"
    /\ UNCHANGED <<op, outcome, classified, extracted, locals, kernel,
                 signing, broadcasting, waiting, swapping, retrying, building, locking>>

\* execute, from the proposal result to the broadcast or the return
ExecuteAfterPropose ==
    /\ pc = "executeAfterPropose"
    /\ LET proposal == locals.propose.ret IN
       IF executeReturnsProposal(proposal)
       THEN /\ result' = Return(proposal)
            /\ pc' = "done"
            /\ UNCHANGED <<locals, hist>>
       ELSE \E opt \in ExecuteOptions :
              IF opt.adapter = "none" \/ ~opt.unsignedTx
              THEN /\ result' = Return(proposal)
                   /\ pc' = "done"
                   /\ locals' = [locals EXCEPT !.options = opt]
                   /\ hist' = hist
              ELSE \E signed \in finalizeTransactionSigning(opt.adapter, UnsignedTx,
                                    IF "signatures" \in DOMAIN proposal
                                    THEN proposal.signatures ELSE <<>>) :
                     /\ hist' = [hist EXCEPT !.finalized = Return(proposal)]
                     /\ locals' = [locals EXCEPT !.options = opt, !.signedTx = signed]
                     /\ IF Thrown(signed)
                        THEN result' = signed /\ pc' = "done"
                        ELSE IF broadcastDisabled(opt)
                        THEN /\ result' = Return(Spread(proposal, [signedTx |-> signed.ret]))
                             /\ pc' = "done"
                        ELSE result' = result /\ pc' = "broadcast"
    /\ UNCHANGED <<op, outcome, classified, extracted, kernel,
                 signing, broadcasting, waiting, swapping, retrying, building, locking>>

\* adapter.broadcastTx returns the transaction hash and outcome, or throws
BroadcastTx ==
    /\ pc = "broadcast"
    /\ hist' = [hist EXCEPT !.broadcast = locals.signedTx]
    /\ \E ok \in BOOLEAN :
          result' =
            IF ok
            THEN Return(Spread(locals.propose.ret,
                        [signedTx |-> locals.signedTx.ret,
                         broadcastTxHash |-> "txHash",
                         broadcastOutcome |-> "outcome"]))
            ELSE Throw("BroadcastFailed")
    /\ pc' = "done"
    /\ UNCHANGED <<op, outcome, classified, extracted, locals, kernel,
                 signing, broadcasting, waiting, swapping, retrying, building, locking>>

Next ==
    \/ Start
    \/ KernelReceives
    \/ ReceiptExecutes(KernelStatuses, MaxCallReceipts)
    \/ ReceiptLogs(KernelLines(kernel.latest), MaxCallLogs)
    \/ CallKernelThrows
    \/ CallKernelReturns
    \/ CallKernelReturnsResult
    \/ ContinueAfterCall
    \/ GetLatestProposalId
    \/ GetProposal
    \/ ViewThrows
    \/ ExecuteAfterPropose
    \/ BroadcastTx

Spec == Init /\ [][Next]_vars

(***************************************************************************)
(* The same calls while other clients propose on the same kernel.          *)
(***************************************************************************)
MaxOthers == 1

\* another client's propose_execution reaches the kernel
OtherProposes ==
    /\ hist.others < MaxOthers
    /\ kernel.latest < MaxId
    /\ \E executes \in BOOLEAN :
          kernel' = [latest |-> kernel.latest + 1,
                     pending |-> IF executes THEN kernel.pending
                                 ELSE kernel.pending \cup {kernel.latest + 1},
                     clock |-> kernel.clock + 1]
    /\ hist' = [hist EXCEPT !.others = @ + 1]
    /\ UNCHANGED <<pc, op, outcome, classified, extracted, result, locals,
                 signing, broadcasting, waiting, swapping, retrying, building, locking>>

\* the proposal the kernel's logs of this call speak of
LoggedId == IF IsPropose(op) THEN hist.own ELSE locals.proposalId

NextConcurrent ==
    \/ Start
    \/ KernelReceives
    \/ OtherProposes
    \/ ReceiptExecutes(KernelStatuses, 1)
    \/ ReceiptLogs(KernelLines(LoggedId), 1)
    \/ CallKernelThrows
    \/ CallKernelReturns
    \/ CallKernelReturnsResult
    \/ ContinueAfterCall
    \/ GetLatestProposalId
    \/ GetProposal
    \/ ViewThrows
    \/ ExecuteAfterPropose
    \/ BroadcastTx

SpecConcurrent == Init /\ [][NextConcurrent]_vars

(***************************************************************************)
(* Properties of propose, vote and execute.                                *)
(***************************************************************************)
\* the call returned a result (it did not throw)
CallReturned == pc = "done" /\ Returned(result)

\* a positive execution signal in an outcome: a completion-event log, a
\* signature-shaped log or a non-empty JSON success value (for a result-only
\* response, the returned value itself)
PositiveSignal(o) ==
    IF hasReceiptsOutcome(o)
    THEN \/ HasCompletionEventLog(o)
         \/ HasSignatureMarkerLog(o)
         \/ \E i \in 1..Len(o.receipts_outcome) :
               DecodableSuccessValue(o.receipts_outcome[i].status)
    ELSE o # JNull

\* C1 as stated: a propose or vote call returns Executed only if its own
\* outcome carries a positive execution signal.
C1_Original ==
    (CallReturned /\ result.ret.executed) => PositiveSignal(outcome)

\* a result-only response that is or holds a signature
ResultHoldsSignature(o) == o \in {Ed25519Value, Secp256k1Value, SignatureArray}

\* C1 amended: a propose or vote call returns Executed only if its own outcome
\* carries a positive execution signal or, when the transport returned a
\* result-only response without receipts, that response holds a signature or
\* the proposal fetched from the kernel after the call is absent.
C1_ExecutedOnlyOnSignalOrAbsentProposal ==
    (CallReturned /\ result.ret.executed)
        => IF hasReceiptsOutcome(outcome)
           THEN PositiveSignal(outcome)
           ELSE ResultHoldsSignature(outcome) \/ locals.proposal = JNull

\* a vote returns Executed with an outcome whose only signal is a signature log
C1_Witness ==
    /\ CallReturned /\ op = "voteOnProposal"
    /\ result.ret.executed
    /\ hasReceiptsOutcome(outcome)
    /\ outcome.receipts_outcome = <<Receipt(<<Ed25519Line>>, SuccessStatus(EmptyText))>>
    /\ result.ret.signatures = <<Ed25519Value>>

\* C2 as stated: every not-executed result of a propose entry point carries a
\* proposal snapshot fetched from the kernel after the submission completed.
C2_Original ==
    (CallReturned /\ IsPropose(op) /\ ~result.ret.executed)
        => /\ "proposal" \in DOMAIN result.ret
           /\ result.ret.proposal.clock >= hist.submitted

\* C2 amended: a not-executed result of the kernel core function entry point
\* carries a snapshot of the proposal fetched from the kernel after the
\* submission completed; a not-executed result of the ChainSig transaction or
\* NEAR actions entry point carries the proposal id and the submission outcome,
\* not a snapshot.
C2_PendingCarriesSnapshotOrOutcome ==
    (CallReturned /\ IsPropose(op) /\ ~result.ret.executed)
        => IF op = "proposeExecutionKernelCoreFunction"
           THEN /\ "proposal" \in DOMAIN result.ret
                /\ result.ret.proposal.id = result.ret.proposalId
                /\ result.ret.proposal.clock >= hist.submitted
           ELSE /\ "proposal" \notin DOMAIN result.ret
                /\ result.ret.outcome = outcome

\* a kernel core proposal stays pending after an outcome with receipts
C2_Witness ==
    /\ CallReturned /\ op = "proposeExecutionKernelCoreFunction"
    /\ ~result.ret.executed
    /\ hasReceiptsOutcome(outcome)
    /\ result.ret.proposalId = 2
    /\ result.ret.proposal = [id |-> 2, clock |-> 1]

\* C3: in execute the adapter's broadcast is invoked only after the proposal
\* was classified executed, its signatures were extracted from the outcome and
\* finalize returned a signed transaction built from them; nothing is
\* finalized or broadcast for a proposal that is still pending.
C3_BroadcastOnlyAfterExecutedAndFinalized ==
    /\ hist.broadcast # NoResult =>
          /\ op = "execute"
          /\ Returned(locals.propose) /\ locals.propose.ret.executed
          /\ locals.propose.ret.signatures =
                IF hasReceiptsOutcome(outcome) THEN extractMPCSignatures(outcome)
                ELSE extractMPCSignaturesFromResultValue(outcome)
          /\ hist.finalized = locals.propose
          /\ Returned(locals.signedTx)
          /\ hist.broadcast = locals.signedTx
    /\ (Returned(locals.propose) /\ ~locals.propose.ret.executed) =>
          hist.finalized = NoResult /\ hist.broadcast = NoResult

\* the built-in adapter signed with the extracted signature and broadcast
C3_Witness ==
    /\ CallReturned /\ op = "execute"
    /\ hasReceiptsOutcome(outcome)
    /\ locals.propose.ret.executed
    /\ outcome.receipts_outcome =
          <<Receipt(<<CreatedNumberLine(2), Ed25519Line>>, SuccessStatus(EmptyText))>>
    /\ locals.propose.ret.signatures = <<Ed25519Value>>
    /\ Returned(hist.broadcast)
    /\ DecodeSignedTx(hist.broadcast.ret) =
          [transaction |-> UnsignedTx,
           signature |-> [keyType |-> KeyTypeED25519, data |-> <<7, 9>>]]
    /\ "broadcastTxHash" \in DOMAIN result.ret

\* no log line of o is an event envelope
NoLogYieldsProposalId(o) ==
    \A p \in LogPositions(o) : ~LogAt(o, p).prefix

\* C8: when the outcome of a submission is classified executed but no receipt
\* log yields a proposal id, the propose call fails with the MissingProposalId
\* error: no result is returned and the submission is not sent again.
C8_MissingProposalIdIsFatal ==
    (/\ pc = "done" /\ IsPropose(op) /\ hist.returned >= 0
     /\ hasReceiptsOutcome(outcome)
     /\ classified
     /\ NoLogYieldsProposalId(outcome))
        => /\ result = Throw(MissingProposalId)
           /\ hist.sends = hist.returned

\* a ChainSig proposal whose outcome holds a signature log and no event
C8_Witness ==
    /\ pc = "done" /\ op = "proposeChainSigTransaction"
    /\ hasReceiptsOutcome(outcome)
    /\ outcome.receipts_outcome = <<Receipt(<<Ed25519Line>>, SuccessStatus(EmptyText))>>
    /\ classified
    /\ result = Throw(MissingProposalId)
    /\ hist.sends = 1

(***************************************************************************)
(* Properties of the NearWasm adapter.                                     *)
(***************************************************************************)
\* the positions of the Ed25519-variant entries of a signature list
Ed25519Positions(signatures) ==
    {i \in 1..Len(signatures) : signatures[i] \in Ed25519Values}
FirstEd25519(signatures) ==
    signatures[CHOOSE i \in Ed25519Positions(signatures) :
                  \A j \in Ed25519Positions(signatures) : i <= j]

\* C11: pickEd25519Signature returns the first Ed25519-variant entry of the
\* list in list order, null when there is none; a second call on the same list
\* returns the same signature, and the list is as the caller gave it.
C11_PickReturnsFirstEd25519 ==
    signing.pc \in {"picked", "pickedAgain"} =>
        /\ signing.picked =
              IF Ed25519Positions(signing.signatures) = {} THEN JNull
              ELSE FirstEd25519(signing.signatures)
        /\ signing.pc = "pickedAgain" => signing.pickedAgain = signing.picked
        /\ signing.signatures = signing.given

\* the first Ed25519 entry comes after a Secp256k1 entry and before another
\* Ed25519 entry
C11_Witness ==
    /\ signing.pc = "pickedAgain"
    /\ signing.signatures =
          <<Secp256k1Value, Ed25519Of("ed25519", <<0, 255>>), Ed25519Value>>
    /\ signing.picked = Ed25519Of("ed25519", <<0, 255>>)
    /\ signing.pickedAgain = signing.picked

\* the bytes of an Ed25519 signature entry
SignatureBytes(v) == [i \in 1..Len(v.o.signature.a) |-> v.o.signature.a[i].n]

\* C12: decoding the signed transaction that the built-in adapter's finalize
\* returns for a transaction T and the list [s] yields T's fields and the
\* bytes of s, unchanged, under the Ed25519 key type.
C12_FinalizeDecodeRoundTrip ==
    (/\ signing.pc = "decoded"
     /\ Len(signing.signatures) = 1
     /\ signing.signatures[1] \in Ed25519Values)
        => /\ signing.decoded.transaction = signing.transaction
           /\ signing.decoded.signature.data = SignatureBytes(signing.signatures[1])
           /\ signing.decoded.signature.keyType = KeyTypeED25519

\* a transaction and a two-byte signature: five bytes, so padded base64 text
C12_Witness ==
    /\ signing.pc = "decoded"
    /\ signing.transaction = [nonce |-> 255, receiverId |-> 128]
    /\ signing.signatures = <<Ed25519Of("ed25519", <<0, 255>>)>>
    /\ signing.signedTx = Return(<<63, 56, 0, 0, 0, 15, 60, Pad>>)
    /\ signing.decoded.signature.data = <<0, 255>>

(***************************************************************************)
(* Properties of the built-in broadcast.                                   *)
(***************************************************************************)
\* a status that reports a failure, and the reason it carries
IsFailure(status) == "Failure" \in DOMAIN status
IsUnknown(status) == "Unknown" \in DOMAIN status
FailureReason(status) ==
    IF IsUnknown(status) THEN [text |-> "Unknown"]
    ELSE IF status.Failure = JNull THEN [text |-> "Failure"]
    ELSE IF IsString(status.Failure) THEN [text |-> status.Failure.s]
    ELSE JsonText(status.Failure)
\* the statuses of an outcome in the order they are looked at: position 0 is
\* the top-level status, position i the status of receipt i
StatusAt(o, i) ==
    IF i = 0 THEN o.transaction_outcome.status ELSE o.receipts_outcome[i].status
FailedOrUnknownAt(o) ==
    {i \in 0..Len(o.receipts_outcome) : IsFailure(StatusAt(o, i)) \/ IsUnknown(StatusAt(o, i))}

\* C13: the built-in broadcast returns the transaction hash and the outcome
\* only if no status, top-level or of a receipt, is a failure (a Failure
\* status or, as extractFailure counts it, an Unknown one); when one is, it
\* throws an error that carries the reason of the first such status, the
\* top-level status first and then the receipts in order.
C13_BroadcastFailsOnFirstFailure ==
    broadcasting.pc = "done" =>
        LET o == broadcasting.outcome IN
        /\ Returned(broadcasting.result) =>
              /\ FailedOrUnknownAt(o) = {}
              /\ broadcasting.result.ret = [txHash |-> "txHash", outcome |-> o]
        /\ FailedOrUnknownAt(o) # {} =>
              /\ Thrown(broadcasting.result)
              /\ \E i \in FailedOrUnknownAt(o) :
                    /\ \A j \in FailedOrUnknownAt(o) : i <= j
                    /\ broadcasting.result.throw.receiptId = i
                    /\ broadcasting.result.throw.reason = FailureReason(StatusAt(o, i))

\* the top-level status is a success and the second receipt failed
C13_Witness ==
    /\ broadcasting.pc = "done"
    /\ broadcasting.outcome.transaction_outcome.status = [SuccessReceiptId |-> "r1"]
    /\ Len(broadcasting.outcome.receipts_outcome) = 2
    /\ broadcasting.outcome.receipts_outcome[1].status = [SuccessValue |-> EmptyText]
    /\ broadcasting.outcome.receipts_outcome[2].status = [Failure |-> ActionError]
    /\ broadcasting.result = Throw(ReceiptFailed(2, ActionError))

(***************************************************************************)
(* Properties of execute after an executed ChainSig proposal.              *)
(***************************************************************************)
\* execute ended after a proposal that executed with at least one signature,
\* with an adapter available
ExecutedWithAdapter ==
    /\ pc = "done" /\ op = "execute"
    /\ Returned(locals.propose) /\ locals.propose.ret.executed
    /\ Len(locals.propose.ret.signatures) >= 1
    /\ locals.options # NoResult
    /\ locals.options.adapter # "none"

\* C14 as stated: after an executed proposal with a signature and an adapter,
\* execute finalizes and broadcasts, and a returned result contains the signed
\* transaction and the broadcast transaction hash.
C14_Original ==
    ExecutedWithAdapter =>
        /\ hist.finalized # NoResult
        /\ hist.broadcast # NoResult
        /\ Returned(result) =>
              {"signedTx", "broadcastTxHash"} \subseteq DOMAIN result.ret

\* C14 amended: after an executed proposal with a signature, with an adapter
\* and an unsigned transaction available and broadcast not disabled, execute
\* finalizes the unsigned transaction with the proposal's signatures and, when
\* finalize returns, broadcasts what it returned; a returned result contains
\* that signed transaction and the broadcast transaction hash.
C14_FinalizesAndBroadcastsUnlessDisabled ==
    (/\ ExecutedWithAdapter
     /\ locals.options.unsignedTx
     /\ locals.options.broadcast # "false")
        => /\ hist.finalized = locals.propose
           /\ Returned(locals.signedTx) => hist.broadcast = locals.signedTx
           /\ Returned(result) =>
                 /\ Returned(locals.signedTx)
                 /\ "signedTx" \in DOMAIN result.ret
                 /\ result.ret.signedTx = locals.signedTx.ret
                 /\ "broadcastTxHash" \in DOMAIN result.ret
                 /\ result.ret.broadcastTxHash = "txHash"

\* a caller-supplied adapter, broadcast left unset, signatures of both kinds
C14_Witness ==
    /\ ExecutedWithAdapter
    /\ locals.options = [adapter |-> "custom", unsignedTx |-> TRUE, broadcast |-> "unset"]
    /\ locals.propose.ret.signatures = <<Secp256k1Value, Ed25519Value>>
    /\ Returned(result)
    /\ result.ret.signedTx =
          [transaction |-> UnsignedTx, signatures |-> <<Secp256k1Value, Ed25519Value>>]
    /\ result.ret.broadcastTxHash = "txHash"

\* C15: when broadcast is explicitly disabled, execute never invokes the
\* adapter's broadcast, and what it returns is the executed proposal result
\* with the signed transaction added and nothing else: no broadcast hash and
\* no broadcast outcome.
C15_BroadcastDisabledReturnsSignedTxOnly ==
    (/\ pc = "done" /\ op = "execute"
     /\ locals.options # NoResult
     /\ locals.options.broadcast = "false")
        => /\ hist.broadcast = NoResult
           /\ Returned(result) =>
                 /\ "broadcastTxHash" \notin DOMAIN result.ret
                 /\ "broadcastOutcome" \notin DOMAIN result.ret
                 /\ Returned(locals.signedTx) =>
                       result.ret = Spread(locals.propose.ret,
                                           [signedTx |-> locals.signedTx.ret])

\* the built-in adapter signed and the result stops at the signed transaction
C15_Witness ==
    /\ pc = "done" /\ op = "execute"
    /\ locals.options = [adapter |-> "NearWasm", unsignedTx |-> TRUE, broadcast |-> "false"]
    /\ Returned(result)
    /\ DOMAIN result.ret = {"executed", "proposalId", "signatures", "outcome", "signedTx"}
    /\ result.ret.signedTx = NearWasmFinalize(UnsignedTx, <<Ed25519Value>>).ret
    /\ hist.finalized # NoResult
    /\ hist.broadcast = NoResult

C17_RetryIsBoundedAndReturnsFirstSuccess ==
    "attempts" \in DOMAIN retrying =>
        /\ retrying.attempts <= 1 + retryTimes(retrying.options)
        /\ retrying.sends <= retrying.attempts
        /\ Len(retrying.started) = retrying.attempts
        /\ \A k \in 1..(retrying.attempts - 1) :
              retrying.started[k + 1] - retrying.started[k]
                  = retryInterval(retrying.options)
        /\ retrying.failures >= retrying.attempts - 1
        /\ Returned(retrying.result) =>
              /\ retrying.failures = retrying.attempts - 1
              /\ retrying.result.ret.attempt = retrying.attempts
              /\ retrying.result.ret.send = retrying.sends
        /\ Thrown(retrying.result) =>
              /\ retrying.attempts = 1 + retryTimes(retrying.options)
              /\ retrying.failures = retrying.attempts

\* the third attempt of a retry configured with two retries succeeds, after one
\* attempt that failed before sending and one that failed after
C17_Witness ==
    /\ "attempts" \in DOMAIN retrying
    /\ retrying.options = [times |-> 2, interval |-> 250]
    /\ retrying.pc = "done"
    /\ Returned(retrying.result)
    /\ retrying.result.ret = [attempt |-> 3, send |-> 2]
    /\ retrying.started = <<0, 250, 500>>

\* C18 as stated: the retry of a submission uses the attempt count and the
\* delay its caller configured.
C18_Original ==
    (op = "proposeChainSigTransaction" /\ "times" \in DOMAIN locals.retry) =>
        /\ hist.sends <= 1 + locals.retry.times
        /\ hist.slept = (hist.sends - 1) * locals.retry.interval \/ hist.sends = 0

\* the retries made so far by the running submission
RetriesMade == RetryTimes - locals.times

\* C18: the retry of a chain-signature proposal submission uses the defaults of
\* retry(), 5 retries and 1000 ms, whatever its caller passes: the retries left
\* count down from 5, the delay stays 1000 ms, and the time slept is 1000 ms
\* for every retry made.
C18_SubmissionRetryUsesDefaults ==
    (RetriesSubmission(op) /\ pc # "idle") =>
        /\ locals.times \in 0..RetryTimes
        /\ locals.interval = RetryInterval
        /\ hist.slept = RetriesMade * RetryInterval
        /\ hist.sends <= 1 + RetriesMade

\* the caller asked for no retry and no delay; the submission failed once, slept
\* 1000 ms, sent the transaction again and returned
C18_Witness ==
    /\ op = "proposeChainSigTransaction"
    /\ locals.retry = [times |-> 0, interval |-> 0]
    /\ pc = "done"
    /\ Returned(result)
    /\ hist.sends = 2
    /\ hist.slept = 1000


\* the timeout messages of the polling loops
TimeoutMessages ==
    {"Wait.for timed out", "Wait.poll timed out",
     "Balance did not reach minBalance within timeout",
     "Withdraw did not arrive before timeout",
     "Intents swap did not settle before timeout"}
WaitDone == "pc" \in DOMAIN waiting /\ waiting.pc = "done"

\* C19 as stated: every polling loop ends.
C19_Original == <>WaitDone

\* a loop ends in one of three ways: it returns after a truthy answer, it
\* throws its timeout error after a falsy answer when its non-zero timeout has
\* elapsed, or it throws the error of its condition; and it sleeps only while
\* no non-zero timeout has elapsed
WaitEndsRight ==
    "pc" \in DOMAIN waiting =>
        /\ (waiting.pc = "done" /\ Returned(waiting.result)) => waiting.last = "truthy"
        /\ (waiting.pc = "done" /\ Thrown(waiting.result)) =>
              \/ /\ waiting.result.throw \in TimeoutMessages
                 /\ waiting.last = "falsy"
                 /\ hasTimeout(waiting.args)
                 /\ waiting.elapsed >= waiting.args.timeout
              \/ /\ waiting.result.throw = "condition failed"
                 /\ waiting.last = "threw"
        /\ (waiting.pc = "sleep" /\ hasTimeout(waiting.args)) =>
              waiting.elapsed < waiting.args.timeout

\* C19: a polling loop that runs with a non-zero timeout ends: it returns when
\* its condition holds, fails with its timeout error once the timeout has
\* elapsed, or fails with the error its condition raised. (A loop without a
\* timeout, or with timeout 0, ends only if its condition holds or throws.)
C19_LoopsWithTimeoutTerminate ==
    /\ []WaitEndsRight
    /\ ("pc" \in DOMAIN waiting /\ hasTimeout(waiting.args)) ~> WaitDone

\* waitUntil with interval 2 and timeout 3 polled more than once and timed out
C19_Witness ==
    /\ WaitDone
    /\ waiting.call = "waitUntil"
    /\ waiting.options = [interval |-> 2, timeout |-> MaxTimeout]
    /\ waiting.polls = "more"
    /\ waiting.result = Throw("Wait.for timed out")
    /\ waiting.elapsed = MaxTimeout


\* C20: one swapViaIntents call sends at most one quote request to the solver,
\* and none when the caller supplies a quote; the quote it goes on with is then
\* the caller's.
C20_AtMostOneQuoteRequest ==
    "requests" \in DOMAIN swapping =>
        /\ RequestsOf("quote", swapping.requests) <= 1
        /\ swapping.params.quote \in SwapQuotes =>
              /\ RequestsOf("quote", swapping.requests) = 0
              /\ swapping.pc \notin {"start", "quoting"} =>
                    swapping.quote = swapping.params.quote

\* a swap without a caller's quote ran to its end on the first of two quotes
\* the solver returned, after one quote request and one publish request
C20_Witness ==
    /\ "requests" \in DOMAIN swapping
    /\ swapping.pc = "done"
    /\ swapping.params.quote = Undefined
    /\ Returned(swapping.result)
    /\ swapping.result.ret.quote = SwapQuote("h2", 11)
    /\ swapping.requests = <<"quote", "publish_intent">>


\* the outcome of the swap's proposal is known and has receipts
SwapOutcomeHasReceipts ==
    "requests" \in DOMAIN swapping /\ "values" \in DOMAIN swapping.outcome

\* a chain-signature response of the Ed25519 scheme is among the values
HasEd25519(values) ==
    \E i \in 1..Len(values) : values[i].scheme = "Ed25519" /\ values[i].shaped

\* the signature of the first such response
RECURSIVE FirstEd25519Bytes(_)
FirstEd25519Bytes(values) ==
    IF Head(values).scheme = "Ed25519" /\ Head(values).shaped
    THEN Head(values).signature
    ELSE FirstEd25519Bytes(Tail(values))

\* C21: when the outcome of the swap's proposal holds no Ed25519 signature the
\* call fails with the "may require voting" error and nothing is published;
\* publish_intent is sent only after an Ed25519 signature was extracted from
\* the outcome, and carries that signature. (An outcome without receipts ends
\* the call with a TypeError, nothing published either.)
C21_NoSignatureNoPublish ==
    "requests" \in DOMAIN swapping =>
        /\ (SwapOutcomeHasReceipts /\ ~HasEd25519(swapping.outcome.values)) =>
              /\ swapping.pc = "done"
              /\ swapping.result = Throw(NoEd25519Returned)
        /\ swapping.outcome = ResultOnly =>
              /\ swapping.pc = "done"
              /\ swapping.result = Throw("TypeError")
        /\ (RequestsOf("publish_intent", swapping.requests) > 0
              \/ swapping.published # NoResult) =>
              /\ SwapOutcomeHasReceipts
              /\ HasEd25519(swapping.outcome.values)
              /\ swapping.published.signature = FirstEd25519Bytes(swapping.outcome.values)
              /\ RequestsOf("publish_intent", swapping.requests) = 1

\* the proposal's outcome held a Secp256k1 response only: the swap failed and
\* sent nothing to the solver
C21_Witness ==
    /\ SwapOutcomeHasReceipts
    /\ swapping.outcome.values = <<ChainSigValue("Secp256k1", <<1>>, TRUE)>>
    /\ swapping.params.quote = SwapQuote("h1", 250)
    /\ swapping.pc = "done"
    /\ swapping.result = Throw(NoEd25519Returned)
    /\ swapping.requests = <<>>

\* C22: when the outcome of the swap's proposal holds an Ed25519 signature, the
\* publish request carries quote_hashes equal to the one-element list with the
\* hash of the quote whose amounts are in the signed payload, and a returned
\* result holds that quote and the intent hash the solver answered with.
C22_PublishCarriesQuoteHash ==
    ("requests" \in DOMAIN swapping /\ swapping.published # NoResult) =>
        /\ swapping.published.quote_hashes = <<swapping.quote.quote_hash>>
        /\ swapping.published.payload.amount_out = swapping.quote.amount_out
        /\ swapping.published.payload = swapping.payload
        /\ (swapping.pc = "done" /\ Returned(swapping.result)) =>
              /\ swapping.result.ret.intentHash = "intent"
              /\ swapping.result.ret.intentHash # ""
              /\ swapping.result.ret.quote = swapping.quote
              /\ swapping.result.ret.signature = swapping.published.signature

\* the solver quoted h2 then h1; the swap signed and published the first one
C22_Witness ==
    /\ "requests" \in DOMAIN swapping
    /\ swapping.pc = "done"
    /\ Returned(swapping.result)
    /\ swapping.params.quote = JNull
    /\ swapping.outcome = [values |-> <<ChainSigValue("Ed25519", <<7, 9>>, TRUE)>>]
    /\ swapping.published = [quote_hashes |-> <<"h2">>,
                             payload |-> [amount_out |-> 11, recipient |-> "intents"],
                             signature |-> <<7, 9>>]
    /\ swapping.result.ret.intentHash = "intent"


\* the balance wait of the swap has polled
SwapHasPolled == "requests" \in DOMAIN swapping /\ swapping.polls # <<>>
LastPoll == swapping.polls[Len(swapping.polls)]

\* C23: with balance waiting enabled and baseline B the swap returns at the
\* first poll whose balance is strictly greater than B, with that balance
\* minus B as swappedAmount: every earlier poll read a balance of at most B,
\* and a wait that goes on or times out has read no balance above B.
C23_ResolvesAtFirstPollAboveBaseline ==
    SwapHasPolled =>
        /\ \A i \in 1..(Len(swapping.polls) - 1) : swapping.polls[i] <= swapping.baseline
        /\ (swapping.pc = "done" /\ Returned(swapping.result)) =>
              /\ LastPoll > swapping.baseline
              /\ swapping.result.ret.swappedAmount = JNum(LastPoll - swapping.baseline)
        /\ (swapping.pc # "done" \/ swapping.result = Throw(SwapWaitArgs.message)) =>
              LastPoll <= swapping.baseline

\* baseline 1000 and polls 1000, 1000, 1250: the swap returned on the third
\* poll with 250
C23_Witness ==
    /\ SwapHasPolled
    /\ swapping.baseline = 1000
    /\ swapping.polls = <<1000, 1000, 1250>>
    /\ swapping.pc = "done"
    /\ Returned(swapping.result)
    /\ swapping.result.ret.swappedAmount = JNum(250)


\* C24: for every signer variant the transaction buildNearTransaction returns
\* has the resolved nonce plus one: the nonce the access-key lookup returned
\* for a wallet or chain-signature signer, the caller's nonce for an explicit
\* signer; the result reports the resolved nonce itself.
C24_NonceIsResolvedPlusOne ==
    ("pc" \in DOMAIN building /\ building.pc = "done" /\ Returned(building.result)) =>
        /\ building.result.ret.transaction.nonce = building.result.ret.nonce + 1
        /\ building.signer.type \in {"Account", "ChainSig"} =>
              /\ building.looked >= 0
              /\ building.result.ret.nonce = building.looked
        /\ building.signer.type = "Explicit" =>
              building.result.ret.nonce = ToBigInt(building.signer.nonce).ret

\* a chain-signature signer whose access key was at nonce 2 when it was looked
\* up gets a transaction with nonce 3, also after the key moved on
C24_Witness ==
    /\ "pc" \in DOMAIN building
    /\ building.pc = "done"
    /\ building.signer.type = "ChainSig"
    /\ building.looked = 2
    /\ building.accessKey = 3
    /\ Returned(building.result)
    /\ building.result.ret.transaction.nonce = 3


\* the proposals the kernel created since the call began
Created == kernel.latest - 1

\* an attempt of a retried submission fails after its transaction reached the
\* kernel, with retries left
LostAttempt ==
    /\ RetriesSubmission(op)
    /\ pc = "chain"
    /\ hist'.lost = hist.lost + 1
    /\ locals.times > 0

\* C25: a retried submission sends again after a failure without looking at
\* the kernel in between, and every transaction that reached the kernel created
\* a proposal: a call that returns has created one proposal for the attempt
\* that returned and one more for every attempt that was lost after its
\* transaction reached the kernel.
C25_RetryDuplicatesProposals ==
    /\ [](RetriesSubmission(op) =>
            /\ Created = hist.sends
            /\ hist.own = kernel.latest \/ hist.sends = 0
            /\ pc \in {"returned", "done"} /\ hist.returned = hist.sends =>
                  Created = 1 + hist.lost)
    /\ [][LostAttempt => (pc' = "callKernel" /\ kernel' = kernel)]_vars

\* one proposeChainSigTransaction call returned proposal 3 after its first
\* attempt, which had created proposal 2, was seen as failed
C25_Witness ==
    /\ op = "proposeChainSigTransaction"
    /\ pc = "done"
    /\ Returned(result)
    /\ hist.lost = 1
    /\ hist.sends = 2
    /\ Created = 2
    /\ result.ret.proposalId = 3


\* C26 as stated: the submission is sent again only after transient failures.
C26_Original ==
    "errors" \in DOMAIN retrying =>
        \A k \in 1..Len(retrying.errors) :
            k < retrying.attempts => Transient(retrying.errors[k])

\* C26: the retry sends the submission again after any error it throws,
\* transient or not, while retries are left: every failure but the last one
\* allowed is followed by the sleep and a new attempt, and the error that
\* reaches the caller is the one of the last attempt, after all of them failed.
C26_RetryResendsAfterAnyError ==
    "errors" \in DOMAIN retrying =>
        /\ Len(retrying.errors) = retrying.failures
        /\ \A k \in 1..Len(retrying.errors) :
              k <= retryTimes(retrying.options) =>
                  \/ retrying.attempts > k
                  \/ retrying.attempts = k /\ retrying.pc = "sleep"
        /\ Thrown(retrying.result) =>
              /\ retrying.failures = 1 + retryTimes(retrying.options)
              /\ retrying.result.throw = retrying.errors[retrying.failures]

\* the kernel rejected the first attempt and the submission was sent again
C26_Witness ==
    /\ "errors" \in DOMAIN retrying
    /\ retrying.options = [times |-> 1]
    /\ retrying.errors = <<"KernelRejected">>
    /\ retrying.attempts = 2
    /\ retrying.sends = 2
    /\ retrying.pc = "done"
    /\ Returned(retrying.result)


\* the order of the steps of swapViaIntents before the balance is polled
SwapOrder == <<"quote", "derive", "payload", "propose", "extract", "publish">>

\* the steps run so far, with the quote step the caller's own quote stands for
SwapStepsRun ==
    IF quoteSupplied(swapping.params.quote) THEN <<"quote">> \o swapping.steps
    ELSE swapping.steps

\* the step a failure belongs to
SwapFailedAt(error) ==
    CASE error \in {"Quote error: HTTP", "Quote error: message", "Quote error",
                    "Unable to get any quote"} -> {"quote"}
      [] error = "Nonce must be 32 bytes" -> {"payload"}
      [] error \in {"TypeError", NoEd25519Returned} -> {"extract"}
      [] error \in {"Intent publishing error: HTTP", "Intent publishing failed"} -> {"publish"}
      [] error = SwapWaitArgs.message -> {"poll"}
      [] OTHER -> {"derive", "propose", "publish", "poll"}

\* C27: swapViaIntents runs quote, derive account, build payload, submit
\* proposal, extract signature, publish, poll balance in this order, each step
\* only after the one before it gave its result, and a failure of a step (no
\* quote, a publish response that is not ok or holds an error, a polling
\* timeout) ends the call with that error at that step: no step runs after it.
C27_StepsInOrderAndFailureEnds ==
    /\ [](("steps" \in DOMAIN swapping) =>
            /\ \A i \in 1..Len(SwapStepsRun) :
                  SwapStepsRun[i] = IF i <= Len(SwapOrder) THEN SwapOrder[i] ELSE "poll"
            /\ Len(SwapStepsRun) >= 2 => swapping.quote \in SwapQuotes
            /\ Len(SwapStepsRun) >= 4 => swapping.payload # NoResult
            /\ Len(SwapStepsRun) >= 6 => swapping.signature # <<>>
            /\ Len(SwapStepsRun) >= 7 => swapping.intentHash # ""
            /\ Thrown(swapping.result) =>
                  /\ swapping.pc = "done"
                  /\ swapping.steps # <<>>
                  /\ swapping.steps[Len(swapping.steps)] \in SwapFailedAt(swapping.result.throw))
    /\ [][("steps" \in DOMAIN swapping /\ swapping.pc = "done") =>
              /\ swapping'.steps = swapping.steps
              /\ swapping'.requests = swapping.requests
              /\ swapping'.result = swapping.result]_vars

\* the solver refused the published intent and the balance was never polled
C27_Witness ==
    /\ "steps" \in DOMAIN swapping
    /\ swapping.pc = "done"
    /\ swapping.result = Throw("Intent publishing failed")
    /\ swapping.params.waitForBalance.set
    /\ swapping.steps = SwapOrder
    /\ swapping.polls = <<>>


\* the call returned a result that names a proposal
ReturnsProposalId ==
    /\ IsPropose(op)
    /\ pc = "done"
    /\ Returned(result)
    /\ "proposalId" \in DOMAIN result.ret

\* C28 as stated: the proposalId a propose call returns is the id of the
\* proposal its own submission created, whatever other clients do meanwhile and
\* whether the outcome has receipts or not.
C28_Original ==
    (ReturnsProposalId /\ hist.lost = 0) => result.ret.proposalId = hist.own

\* the call returned the id of a proposal that another client created after
\* the call's own submission
C28_Witness ==
    /\ ReturnsProposalId
    /\ op = "proposeChainSigTransaction"
    /\ ~hasReceiptsOutcome(outcome)
    /\ hist.sends = 1 /\ hist.lost = 0 /\ hist.others = 1
    /\ hist.own = 2
    /\ result.ret.proposalId = 3


\* the call ended after the published intent settled, with balance waiting
\* enabled, no other transfer on the account and no failed request
SwapEndedAfterSettlement ==
    /\ "steps" \in DOMAIN swapping
    /\ swapping.pc = "done"
    /\ swapping.params.waitForBalance.set
    /\ swapping.intentHash # ""
    /\ swapping.settled \notin {"no", "done"}
    /\ ~swapping.spent
    /\ swapping.result # Throw("RpcError")

\* C29 as stated: with balance waiting enabled, a swap that settles at any
\* moment after the intent is published makes swapViaIntents return with
\* swappedAmount equal to the balance increase of the settlement, with or
\* without an initial balance from the caller.
C29_Original ==
    SwapEndedAfterSettlement =>
        /\ Returned(swapping.result)
        /\ swapping.result.ret.swappedAmount = JNum(swapping.quote.amount_out)

\* the intent settled before the baseline was read: every poll equals the
\* baseline and the call times out although the swap is done
C29_Witness ==
    /\ SwapEndedAfterSettlement
    /\ ~swapping.params.waitForBalance.initialBalance
    /\ swapping.settled \in {"publishing", "baseline"}
    /\ swapping.baseline = StartBalance + swapping.quote.amount_out
    /\ swapping.polls # <<>>
    /\ \A i \in 1..Len(swapping.polls) : swapping.polls[i] = swapping.baseline
    /\ swapping.result = Throw(SwapWaitArgs.message)


\* ensureLock has ended
LockDone == "sent" \in DOMAIN locking /\ locking.pc = "done"

\* C30 as stated: acquired: true means the caller holds the lock when the call
\* returns, acquired: false means the caller held it already, and while another
\* account holds the lock the call fails and no transaction is sent, also when
\* the other client takes the lock between the holder check and the acquire
\* and when the lock is taken through a proposal of a policy.
C30_Original ==
    LockDone =>
        /\ (Returned(locking.result) /\ locking.result.ret.acquired) =>
              locking.atReturn = locking.accountId
        /\ (Returned(locking.result) /\ ~locking.result.ret.acquired) =>
              locking.holder = locking.accountId
        /\ heldByOther(locking.holder, locking.accountId) =>
              Thrown(locking.result) /\ locking.sent = 0
        /\ locking.sent > 0 => locking.sentWhile = JNull

\* the lock was free, the acquire proposal is still waiting for votes, and
\* ensureLock returned acquired: true while nobody holds the lock
C30_Witness ==
    /\ LockDone
    /\ locking.policyId = Undefined
    /\ locking.result = LockResult(TRUE, Caller)
    /\ locking.proposal = "pending"
    /\ locking.holder = JNull
    /\ locking.sentWhile = JNull
    /\ locking.atReturn = JNull

=============================================================================
